---- MODULE Spec2Model ----
(***************************************************************************)
(* A model of the monarch actor-mesh core:                                 *)
(*   - the indexed ValueMesh builder (hyperactor_mesh/src/v1/value_mesh.rs)*)
(*   - the ValueMesh transformations (ndslice/src/view.rs)                 *)
(*   - the ProcEvents stream (hyperactor_mesh/src/proc_mesh.rs)            *)
(* Each part is a state machine of its own (SpecBuild, SpecMesh,           *)
(* SpecEvents); the variables of the other parts are held idle.            *)
(***************************************************************************)
EXTENDS Integers, Sequences, FiniteSets, TLC

(***************************************************************************)
(* Bounds of the model.                                                    *)
(***************************************************************************)
\* Largest number of ranks of the small regions the builder is run on.
MaxRanks == 3
\* Longest sequence of (rank, value) pairs handed to the builder.
MaxPairs == 4
\* Width of usize in the model.  The target's width (32 or 64 bits) is beyond
\* TLC's integers; the builder's only arithmetic on an unbounded rank is
\* `rank + 1`, whose overflow at the top of the range is kept.
UsizeBits == 7
\* Number of procs of the proc mesh.
NumProcs == 2
\* Number of inputs (alloc states, supervision events) ProcEvents::next consumes.
MaxCalls == 3

\* Bits per word of the occupancy bitset (u64).
WordBits == 64

UsizeMax == 2 ^ UsizeBits - 1

(***************************************************************************)
(* State.                                                                  *)
(***************************************************************************)
VARIABLES
    \* -- ValueMesh::build_indexed --
    region,          \* the Region argument
    pairs,           \* the ranks of the (rank, value) pairs, in iteration order;
                     \* the value of the k-th pair is the object k
    overflowChecks,  \* whether the build panics on integer overflow (debug) or wraps
    pc,              \* "loop" while in the for loop, "done" after return or unwind
    consumed,        \* number of pairs taken from the iterator
    buf,             \* Vec<MaybeUninit<T>>: slot -> object, or Uninit
    bits,            \* Vec<u64>: each word as the set of its set bit positions
    filled,          \* number of distinct ranks seen
    guard,           \* DropGuard { n_elems, n_words, disarm }
    dropped,         \* object -> number of times the builder destroyed it
    uninitRead,      \* an uninitialized slot was dropped or moved out as a T
    result,          \* NoResult while running, then Ok / Err / Panic
    \* -- ValueMesh transformations --
    mesh,            \* the ValueMesh at hand: [region, ranks, ty], or NoMesh
    meshOp,          \* the last operation: its name, argument and kind of outcome
    \* -- ProcEvents::next and the actor-event router --
    router,          \* actor_event_router: actor mesh name -> channel (its sender)
    chans,           \* the channels made by spawn: [name, queue, received, tx, rx]
    calls,           \* number of inputs ProcEvents::next has consumed
    input,           \* the last input consumed (alloc state or supervision event)
    ret,             \* what the last iteration did: Continue, or break with a value
    closeChans,      \* number of channels that existed when None was returned
    \* -- the alloc behind a ProcEvents stream --
    alloc,           \* [procs: rank -> "running" or its stop reason, queue, stopping]
    stoppedSeen,     \* the Stopped events next has returned, in order
    \* -- the process-global supervision sink --
    gsink,           \* GLOBAL_SUPERVISION_SINK: [cell, lock, installs]
    allocs,          \* mesh -> [pc, prev]: where its allocate is, what set returned
    ports,           \* mesh -> the events its supervision port has received
    rootClient,      \* global_root_client: [created, made_with, log]
    \* -- ProcMesh::events, spawn and stop_actor_by_name --
    pmesh,           \* the ProcMesh: [event_state, stream, events_rets]
    agents,          \* rank -> [actors, inbox]: the mesh agent of each proc
    op,              \* the spawn or stop_actor_by_name in progress, or NoCall
    done,            \* the calls that have returned: [kind, name, ...], in order
    \* -- one RDMA queue pair and its device --
    qp,              \* RdmaQueuePair: the six ring counters
    sq,              \* the send queue: slot -> the descriptor written there
    hw,              \* the device: [rung, executed, recv_done]
    rdmaOp,          \* the last queue-pair operation and its outcome, and
                     \* whether any operation so far has returned an error
    \* -- Extent and Region functions (ndslice view) --
    view,            \* the value the functions are applied to
    viewOp,          \* the last function applied: its name, arguments and result
    \* -- the two streams of ProcEvents::next, and SimAlloc --
    sel,             \* what the select of next has to read and what it read
    sim              \* SimAlloc: the inner alloc's states, created, the simnet

buildVars == <<region, pairs, overflowChecks, pc, consumed, buf, bits, filled,
               guard, dropped, uninitRead, result>>

meshVars == <<mesh, meshOp>>

eventVars == <<router, chans, calls, input, ret, closeChans>>

procVars == <<alloc, stoppedSeen>>

sinkVars == <<gsink, allocs, ports, rootClient>>

spawnVars == <<pmesh, agents, op, done>>

rdmaVars == <<qp, sq, hw, rdmaOp>>

viewVars == <<view, viewOp>>

streamVars == <<sel, sim>>

vars == <<buildVars, meshVars, eventVars, procVars, sinkVars, spawnVars,
          rdmaVars, viewVars, streamVars>>

(***************************************************************************)
(* Regions (ndslice/src/view.rs).                                          *)
(***************************************************************************)
RECURSIVE Product(_)
Product(s) == IF s = <<>> THEN 1 ELSE Head(s) * Product(Tail(s))

\* Slice::new_row_major: the stride of axis i is the product of the sizes after i.
RowMajorStrides(sizes) ==
    [i \in 1..Len(sizes) |-> Product(SubSeq(sizes, i + 1, Len(sizes)))]

\* impl From<Extent> for Region
RegionOfExtent(labels, sizes) ==
    [labels |-> labels, offset |-> 0, sizes |-> sizes,
     strides |-> RowMajorStrides(sizes)]

\* Region::num_ranks
NumRanks(r) == Product(r.sizes)

(***************************************************************************)
(* ValueMesh::build_indexed (hyperactor_mesh/src/v1/value_mesh.rs).        *)
(***************************************************************************)
\* A slot of MaybeUninit<T> that holds no object (objects are numbered from 1).
Uninit == 0
NoResult == [kind |-> "None"]
OkMesh(r, ranks) == [kind |-> "Ok", region |-> r, ranks |-> ranks]
InvalidRankCardinality(expected, actual) ==
    [kind |-> "Err", expected |-> expected, actual |-> actual]
Panic(cause) == [kind |-> "Panic", cause |-> cause]

\* usize::div_ceil
DivCeil(a, b) == (a + b - 1) \div b

\* usize::saturating_sub
SaturatingSub(a, b) == IF a >= b THEN a - b ELSE 0

\* The builder's locals as one value, for the operators below.
Locals ==
    [buf |-> buf, bits |-> bits, filled |-> filled, dropped |-> dropped,
     uninitRead |-> uninitRead]

\* ptr::drop_in_place on the slots `slots` of s.buf: each object held there is
\* destroyed once more; dropping a slot that holds no object reads
\* uninitialized memory.
DropInPlace(s, slots) ==
    [s EXCEPT
       !.dropped = [v \in DOMAIN s.dropped |->
                       s.dropped[v] + Cardinality({i \in slots : s.buf[i] = v})],
       !.uninitRead = s.uninitRead \/ (\E i \in slots : s.buf[i] = Uninit)]

\* The word w of the bitset as DropGuard::drop scans it: the last word is
\* masked to the bits below n_elems.
GuardWord(g, bs, w) ==
    LET word == bs[w + 1] IN
    IF w = SaturatingSub(g.n_words, 1)
    THEN LET used_bits == SaturatingSub(g.n_elems, w * WordBits) IN
         IF used_bits < WordBits
         THEN word \cap (0 .. used_bits - 1)
         ELSE word
    ELSE word

\* The slots DropGuard::drop destroys.
GuardSlots(g, bs) ==
    UNION {{w * WordBits + tz : tz \in GuardWord(g, bs, w)} : w \in 0 .. g.n_words - 1}

\* Mutant of GuardDrop: a guard that forgets it was disarmed.
GuardDropIgnoresDisarm(g, s) == DropInPlace(s, GuardSlots(g, s.bits))

\* DropGuard::drop: nothing when disarmed, else drop every slot whose bit is set.
GuardDrop(g, s) ==
    IF g.disarm THEN s ELSE DropInPlace(s, GuardSlots(g, s.bits))

\* Mutant of WriteSlot: a duplicate keeps the value already in the slot.
WriteSlotFirstWins(s, rank, value) ==
    LET w == rank \div WordBits
        b == rank % WordBits
        word == s.bits[w + 1]
    IN IF b \in word
       THEN s
       ELSE [s EXCEPT !.bits[w + 1] = word \cup {b}, !.filled = @ + 1,
                      !.buf[rank] = value]

\* Mutant of WriteSlot: every pair bumps `filled`, duplicates included.
WriteSlotCountsDuplicates(s, rank, value) ==
    LET w == rank \div WordBits
        b == rank % WordBits
        word == s.bits[w + 1]
        s1 == IF b \in word
              THEN [DropInPlace(s, {rank}) EXCEPT !.filled = @ + 1]
              ELSE [s EXCEPT !.bits[w + 1] = word \cup {b}, !.filled = @ + 1]
    IN [s1 EXCEPT !.buf[rank] = value]

\* The body of the loop for an in-bounds pair (rank, value).
WriteSlot(s, rank, value) ==
    LET w == rank \div WordBits
        b == rank % WordBits
        word == s.bits[w + 1]
        s1 == IF b \in word
              THEN \* Duplicate: drop old value before overwriting.
                   DropInPlace(s, {rank})
              ELSE \* First time we see this rank.
                   [s EXCEPT !.bits[w + 1] = word \cup {b}, !.filled = @ + 1]
    IN [s1 EXCEPT !.buf[rank] = value]

\* Mutant of OutOfBoundsResult: reports the offending rank, not rank + 1.
OutOfBoundsResultOffByOne(n_elems, rank, checks) ==
    InvalidRankCardinality(n_elems, rank)

\* `rank + 1` in usize: panics on overflow when overflow checks are on, wraps
\* otherwise.
OutOfBoundsResult(n_elems, rank, checks) ==
    IF rank + 1 > UsizeMax
    THEN IF checks
         THEN Panic("overflow")
         ELSE InvalidRankCardinality(n_elems, (rank + 1) % (UsizeMax + 1))
    ELSE InvalidRankCardinality(n_elems, rank + 1)

\* The check after the loop, and the conversion of the buffer into Vec<T>.
FinishResult(r, n, s) ==
    IF s.filled # n
    THEN InvalidRankCardinality(n, s.filled)
    ELSE OkMesh(r, [i \in 1..n |-> s.buf[i - 1]])

\* The regions and rank values the builder is run on: every small region with
\* every rank up to MaxRanks, and one region needing two bitset words with
\* the ranks around the word boundary; usize::MAX in both.
BuildRegions ==
    {RegionOfExtent(<<"x">>, <<k>>) : k \in 0..MaxRanks}
      \cup {RegionOfExtent(<<"x">>, <<WordBits + 1>>)}

RankChoices(r) ==
    IF NumRanks(r) <= MaxRanks
    THEN 0..MaxRanks \cup {UsizeMax}
    ELSE {0, WordBits - 1, WordBits, WordBits + 1, UsizeMax}

SeqsUpTo(S, n) == UNION {[1..l -> S] : l \in 0..n}

NoMesh == [kind |-> "NoMesh"]
NoOp == [op |-> "none", arg |-> <<>>, out |-> "None"]

\* The mesh transformations are not running.
MeshIdle == mesh = NoMesh /\ meshOp = NoOp

\* ProcEvents as ProcMesh::events hands it out: nothing spawned, nothing read.
NoInput == [src |-> "none"]
NotCalled == [kind |-> "NotCalled"]
EventsIdle ==
    /\ router = <<>>
    /\ chans = <<>>
    /\ calls = 0
    /\ input = NoInput
    /\ ret = NotCalled
    /\ closeChans = 0

\* No alloc at hand.
AllocIdle ==
    /\ alloc = [procs |-> <<>>, queue |-> <<>>, stopping |-> FALSE]
    /\ stoppedSeen = <<>>

\* The process before any mesh is allocated: sink_cell() holds None, the
\* global root client is not made.
SinkIdle ==
    /\ gsink = [cell |-> "None", lock |-> "free", installs |-> <<>>]
    /\ allocs = <<>>
    /\ ports = <<>>
    /\ rootClient = [created |-> FALSE, made_with |-> "None", log |-> <<>>]

\* No ProcMesh at hand.
NoCall == [kind |-> "none"]
SpawnIdle ==
    /\ pmesh = [event_state |-> "None", stream |-> [made |-> FALSE], events_rets |-> <<>>]
    /\ agents = <<>>
    /\ op = NoCall
    /\ done = <<>>

\* A queue pair as created: nothing posted, rung or completed.
RdmaIdle ==
    /\ qp = <<>>
    /\ sq = <<>>
    /\ hw = <<>>
    /\ rdmaOp = NoCall

ViewIdle == view = NoCall /\ viewOp = NoCall

StreamIdle == sel = NoCall /\ sim = NoCall

ProcIdle ==
    AllocIdle /\ SinkIdle /\ SpawnIdle /\ RdmaIdle /\ ViewIdle /\ StreamIdle

\* What build_indexed leaves alone.
BuildFrame == UNCHANGED <<meshVars, eventVars, procVars, sinkVars, spawnVars, rdmaVars, viewVars, streamVars>>

BuildInit ==
    /\ region \in BuildRegions
    /\ pairs \in SeqsUpTo(RankChoices(region), MaxPairs)
    /\ overflowChecks \in BOOLEAN
    /\ pc = "loop"
    /\ consumed = 0
    /\ buf = [i \in 0 .. NumRanks(region) - 1 |-> Uninit]
    /\ bits = [w \in 1 .. DivCeil(NumRanks(region), WordBits) |-> {}]
    /\ filled = 0
    /\ guard = [n_elems |-> NumRanks(region),
                n_words |-> DivCeil(NumRanks(region), WordBits),
                disarm |-> FALSE]
    /\ dropped = [v \in 1..Len(pairs) |-> 0]
    /\ uninitRead = FALSE
    /\ result = NoResult
    /\ MeshIdle
    /\ EventsIdle
    /\ ProcIdle

SetLocals(s) ==
    /\ buf' = s.buf
    /\ bits' = s.bits
    /\ filled' = s.filled
    /\ dropped' = s.dropped
    /\ uninitRead' = s.uninitRead

\* One iteration of the loop on an in-bounds pair.
LoopWrite ==
    /\ pc = "loop"
    /\ consumed < Len(pairs)
    /\ pairs[consumed + 1] < guard.n_elems
    /\ SetLocals(WriteSlot(Locals, pairs[consumed + 1], consumed + 1))
    /\ consumed' = consumed + 1
    /\ UNCHANGED <<region, pairs, overflowChecks, pc, guard, result>>
    /\ BuildFrame

\* One iteration of the loop on an out-of-bounds pair: return Err (or panic
\* computing it); the guard is dropped armed.
LoopOutOfBounds ==
    /\ pc = "loop"
    /\ consumed < Len(pairs)
    /\ pairs[consumed + 1] >= guard.n_elems
    /\ result' = OutOfBoundsResult(guard.n_elems, pairs[consumed + 1], overflowChecks)
    /\ SetLocals(GuardDrop(guard, Locals))
    /\ consumed' = consumed + 1
    /\ pc' = "done"
    /\ UNCHANGED <<region, pairs, overflowChecks, guard>>
    /\ BuildFrame

\* The pair iterator panics in next(): the unwind drops the guard armed.
IterPanic ==
    /\ pc = "loop"
    /\ result' = Panic("iterator")
    /\ SetLocals(GuardDrop(guard, Locals))
    /\ pc' = "done"
    /\ UNCHANGED <<region, pairs, overflowChecks, consumed, guard>>
    /\ BuildFrame

\* The iterator is exhausted: coverage check, then disarm and convert.
LoopEnd ==
    /\ pc = "loop"
    /\ consumed = Len(pairs)
    /\ LET n == NumRanks(region)
           res == FinishResult(region, n, Locals)
           g == [guard EXCEPT !.disarm = (res.kind = "Ok")]
           s == GuardDrop(g, Locals)
       IN /\ result' = res
          /\ guard' = g
          /\ SetLocals([s EXCEPT !.uninitRead =
                           @ \/ (res.kind = "Ok" /\ \E i \in 1..n : res.ranks[i] = Uninit)])
    /\ pc' = "done"
    /\ UNCHANGED <<region, pairs, overflowChecks, consumed>>
    /\ BuildFrame

BuildNext == LoopWrite \/ LoopOutOfBounds \/ IterPanic \/ LoopEnd

SpecBuild == BuildInit /\ [][BuildNext]_vars

(***************************************************************************)
(* Region iteration, is_subset and remap (ndslice/src/view.rs).            *)
(***************************************************************************)
RECURSIVE Concat(_)
Concat(ss) == IF ss = <<>> THEN <<>> ELSE Head(ss) \o Concat(Tail(ss))

\* Slice::iter: the ranks offset + SUM c_i * strides_i in row-major order of
\* the coordinates c.
RECURSIVE SliceRanks(_, _, _)
SliceRanks(offset, sizes, strides) ==
    IF sizes = <<>>
    THEN <<offset>>
    ELSE Concat([c \in 1..Head(sizes) |->
                    SliceRanks(offset + (c - 1) * Head(strides),
                               Tail(sizes), Tail(strides))])

RegionRanks(r) == SliceRanks(r.offset, r.sizes, r.strides)

\* Region::is_subset: the two-pointer walk over the two peekable iterators,
\* l and r being the numbers of items already taken from left and right.
RECURSIVE SubsetWalk(_, _, _, _)
SubsetWalk(left, right, l, r) ==
    IF l >= Len(left) THEN TRUE
    ELSE IF r >= Len(right) THEN FALSE
    ELSE IF left[l + 1] < right[r + 1] THEN FALSE
    ELSE IF left[l + 1] = right[r + 1] THEN SubsetWalk(left, right, l + 1, r + 1)
    ELSE SubsetWalk(left, right, l, r + 1)

IsSubset(self, other) == SubsetWalk(RegionRanks(self), RegionRanks(other), 0, 0)

\* The iterator Region::remap returns, run to its end: for each needle of
\* `theirs` advance `ours` to the next equal value and yield its index.
\* ours.next().unwrap() on an exhausted iterator panics.
RECURSIVE RemapWalk(_, _, _, _, _)
RemapWalk(ours, theirs, o, t, acc) ==
    IF t >= Len(theirs) THEN [panic |-> FALSE, indices |-> acc]
    ELSE IF o >= Len(ours) THEN [panic |-> TRUE, indices |-> acc]
    ELSE IF ours[o + 1] = theirs[t + 1]
         THEN RemapWalk(ours, theirs, o + 1, t + 1, Append(acc, o))
         ELSE RemapWalk(ours, theirs, o + 1, t, acc)

\* Mutant of Remap: the iterator stops one index early.
RemapStopsEarly(self, target) ==
    IF ~IsSubset(target, self)
    THEN [some |-> FALSE]
    ELSE LET w == RemapWalk(RegionRanks(self), RegionRanks(target), 0, 0, <<>>)
         IN [some |-> TRUE, panic |-> w.panic,
             indices |-> SubSeq(w.indices, 1, Len(w.indices) - 1)]

\* Region::remap
Remap(self, target) ==
    IF ~IsSubset(target, self)
    THEN [some |-> FALSE]
    ELSE LET w == RemapWalk(RegionRanks(self), RegionRanks(target), 0, 0, <<>>)
         IN [some |-> TRUE, panic |-> w.panic, indices |-> w.indices]

\* The region ViewExt::range builds from begin, end and step on axis `dim`
\* (1-based here).
RangeRegion(r, dim, begin, end, step) ==
    [labels |-> r.labels,
     offset |-> r.offset + r.strides[dim] * begin,
     sizes |-> [r.sizes EXCEPT ![dim] = DivCeil(end - begin, step)],
     strides |-> [r.strides EXCEPT ![dim] = @ * step]]

(***************************************************************************)
(* ValueMesh and its transformations (value_mesh.rs, view.rs).             *)
(* A value is [tag, v]: a plain value, a future of v, or a Result.         *)
(***************************************************************************)
Val(v) == [tag |-> "val", v |-> v]
Fut(v) == [tag |-> "fut", v |-> v]
ResOk(v) == [tag |-> "ok", v |-> v]
ResErr(e) == [tag |-> "err", v |-> e]

Mesh(r, ranks, ty) == [kind |-> "Mesh", region |-> r, ranks |-> ranks, ty |-> ty]

\* Vec::get(rank): an Option, as a set.
Get(m, rank) == IF rank < Len(m.ranks) THEN {m.ranks[rank + 1]} ELSE {}

\* ValueMesh::new
ValueMeshNew(r, ranks, ty) ==
    IF Len(ranks) # NumRanks(r)
    THEN InvalidRankCardinality(NumRanks(r), Len(ranks))
    ELSE Mesh(r, ranks, ty)

\* ValueMesh::new_unchecked (the debug assertion is not a check of the build).
ValueMeshNewUnchecked(r, ranks, ty) == Mesh(r, ranks, ty)

\* build_indexed run to its return on the pairs ps (no iterator panic).
RECURSIVE BuildLoop(_, _, _, _, _, _)
BuildLoop(r, g, s, ps, k, checks) ==
    IF k > Len(ps) THEN FinishResult(r, NumRanks(r), s)
    ELSE IF ps[k] >= g.n_elems THEN OutOfBoundsResult(g.n_elems, ps[k], checks)
    ELSE BuildLoop(r, g, WriteSlot(s, ps[k], k), ps, k + 1, checks)

BuildIndexed(r, ps, checks) ==
    BuildLoop(r,
              [n_elems |-> NumRanks(r), n_words |-> DivCeil(NumRanks(r), WordBits),
               disarm |-> FALSE],
              [buf |-> [i \in 0 .. NumRanks(r) - 1 |-> Uninit],
               bits |-> [w \in 1 .. DivCeil(NumRanks(r), WordBits) |-> {}],
               filled |-> 0, dropped |-> [v \in 1..Len(ps) |-> 0],
               uninitRead |-> FALSE],
              ps, 1, checks)

\* The functions handed to the map operations: the type of the output, whether
\* the payload is kept or mirrored (v -> Mirror - v), the payload a function
\* into Result maps to Err (0: none), and the payload on which a fallible
\* function fails (0: none).
Mirror == MaxPairs + MaxRanks + 3
Apply(f, x) ==
    LET v == IF f.mirror THEN Mirror - x.v ELSE x.v IN
    IF f.ty = "val" THEN Val(v)
    ELSE IF f.ty = "fut" THEN Fut(v)
    ELSE IF x.v = f.errAt THEN ResErr(x.v) ELSE ResOk(v)
Fails(f, x) == x.v = f.failAt

\* MapIntoExt::map_into / MapIntoRefExt::map_into_ref:
\* (0..n).map(|i| f(self.get(i).unwrap())).collect(), then build_dense_unchecked.
MapValues(m, f) ==
    LET n == NumRanks(m.region) IN
    IF \E i \in 0 .. n - 1 : Get(m, i) = {}
    THEN Panic("unwrap")
    ELSE ValueMeshNewUnchecked(
             m.region,
             [i \in 1..n |-> Apply(f, CHOOSE x \in Get(m, i - 1) : TRUE)],
             f.ty)

\* try_map_into / try_map_into_ref: push f(get(i).unwrap())? for i in 0..n.
RECURSIVE TryMapLoop(_, _, _, _)
TryMapLoop(m, f, i, out) ==
    IF i >= NumRanks(m.region)
    THEN ValueMeshNewUnchecked(m.region, out, f.ty)
    ELSE IF Get(m, i) = {} THEN Panic("unwrap")
    ELSE LET x == CHOOSE y \in Get(m, i) : TRUE IN
         IF Fails(f, x) THEN [kind |-> "UserErr", e |-> x.v]
         ELSE TryMapLoop(m, f, i + 1, Append(out, Apply(f, x)))

TryMapValues(m, f) == TryMapLoop(m, f, 0, <<>>)

\* ValueMesh::join: join_all yields the outputs in the order of the futures.
Join(m) ==
    ValueMeshNewUnchecked(m.region, [i \in 1..Len(m.ranks) |-> Val(m.ranks[i].v)], "val")

\* ValueMesh::transpose: collect::<Result<Vec<T>, E>>() stops at the first Err.
Transpose(m) ==
    IF \E i \in 1..Len(m.ranks) : m.ranks[i].tag = "err"
    THEN LET i == CHOOSE j \in 1..Len(m.ranks) :
                     /\ m.ranks[j].tag = "err"
                     /\ \A h \in 1 .. j - 1 : m.ranks[h].tag # "err"
         IN [kind |-> "UserErr", e |-> m.ranks[i].v]
    ELSE ValueMeshNewUnchecked(m.region, [i \in 1..Len(m.ranks) |-> Val(m.ranks[i].v)], "val")

\* Ranked::sliced for ValueMesh: collect the nodes, new_unchecked.
Sliced(m, r, nodes) == ValueMeshNewUnchecked(r, nodes, m.ty)

\* impl View for T: Ranked, subset.
Subset(m, r) ==
    LET ix == Remap(m.region, r) IN
    IF ~ix.some THEN [kind |-> "InvalidRange", base |-> m.region, selected |-> r]
    ELSE IF ix.panic \/ \E k \in 1..Len(ix.indices) : Get(m, ix.indices[k]) = {}
    THEN Panic("unwrap")
    ELSE Sliced(m, r, [k \in 1..Len(ix.indices) |->
                          CHOOSE x \in Get(m, ix.indices[k]) : TRUE])

\* The regions meshes are built on (the extents of one and two axes with at
\* most MaxRanks + 1 ranks) and the regions range() makes of a region r:
\* Range::resolve gives begin < end <= sizes[dim] and a step of at least 1.
\* Strides are capped at StrideCap.
Extents ==
    {RegionOfExtent(<<"x">>, <<a>>) : a \in 0..MaxRanks}
      \cup {RegionOfExtent(<<"x", "y">>, <<q[1], q[2]>>) :
               q \in {p \in (0..MaxRanks) \X (0..MaxRanks) : p[1] * p[2] <= MaxRanks + 1}}

StrideCap == MaxRanks + 1

Ranges(r) ==
    {RangeRegion(r, q[1], q[2], q[3], q[4]) :
        q \in {p \in (1..Len(r.sizes)) \X (0..MaxRanks) \X (1..MaxRanks) \X (1..2) :
                  /\ p[2] < p[3]
                  /\ p[3] <= r.sizes[p[1]]
                  /\ r.strides[p[1]] * p[4] <= StrideCap}}

Fn(ty, mirror, errAt, failAt) ==
    [ty |-> ty, mirror |-> mirror, errAt |-> errAt, failAt |-> failAt]
MapFns == {Fn("val", TRUE, 0, 0), Fn("fut", FALSE, 0, 0), Fn("res", FALSE, 2, 0)}
TryMapFns == {Fn("val", FALSE, 0, 1), Fn("fut", TRUE, 0, 2), Fn("res", TRUE, 1, 0)}

\* build_indexed is not running.
BuildIdle ==
    /\ region = RegionOfExtent(<<"x">>, <<0>>)
    /\ pairs = <<>>
    /\ overflowChecks = FALSE
    /\ pc = "idle"
    /\ consumed = 0
    /\ buf = <<>>
    /\ bits = <<>>
    /\ filled = 0
    /\ guard = [n_elems |-> 0, n_words |-> 0, disarm |-> TRUE]
    /\ dropped = <<>>
    /\ uninitRead = FALSE
    /\ result = NoResult

\* What the mesh transformations leave alone.
MeshFrame == UNCHANGED <<buildVars, eventVars, procVars, sinkVars, spawnVars, rdmaVars, viewVars, streamVars>>

MeshInit ==
    /\ mesh = NoMesh
    /\ meshOp = NoOp
    /\ BuildIdle
    /\ EventsIdle
    /\ ProcIdle

\* The mesh an operation hands back, if it hands one back.
Produced(out) == IF out.kind = "Mesh" THEN out ELSE NoMesh

\* BuildFromRegion::build_dense on the values 1..len.  The model follows one
\* mesh from its build on, so a build is its first step.
MeshBuildDense ==
    /\ MeshIdle
    /\ \E r \in Extents, len \in 0 .. MaxRanks + 2 :
        LET out == ValueMeshNew(r, [i \in 1..len |-> Val(i)], "val") IN
        /\ mesh' = Produced(out)
        /\ meshOp' = [op |-> "build_dense", arg |-> <<r, len>>, out |-> out.kind]
    /\ MeshFrame

\* BuildFromRegionIndexed::build_indexed on pairs (rank, rank + 1): the builder
\* hands back the pair it kept for each rank, the mesh holds that pair's value.
MeshBuildIndexed ==
    /\ MeshIdle
    /\ \E r \in {RegionOfExtent(<<"x">>, <<k>>) : k \in 0..MaxRanks} :
        \E ps \in SeqsUpTo(0..MaxRanks, MaxPairs), checks \in BOOLEAN :
            LET res == BuildIndexed(r, ps, checks)
                out == IF res.kind = "Ok"
                       THEN Mesh(res.region,
                                 [i \in 1..Len(res.ranks) |-> Val(ps[res.ranks[i]] + 1)], "val")
                       ELSE res
            IN /\ mesh' = Produced(out)
               /\ meshOp' = [op |-> "build_indexed", arg |-> r, out |-> out.kind]
    /\ MeshFrame

\* map_into (&self): the model goes on with the new mesh.
MeshMapInto ==
    /\ mesh # NoMesh
    /\ \E f \in MapFns :
        LET out == MapValues(mesh, f) IN
        /\ mesh' = Produced(out)
        /\ meshOp' = [op |-> "map_into", arg |-> f, out |-> out.kind]
    /\ MeshFrame

\* map_into_ref (&self, through get_ref): likewise.
MeshMapIntoRef ==
    /\ mesh # NoMesh
    /\ \E f \in MapFns :
        LET out == MapValues(mesh, f) IN
        /\ mesh' = Produced(out)
        /\ meshOp' = [op |-> "map_into_ref", arg |-> f, out |-> out.kind]
    /\ MeshFrame

\* try_map_into (self): consumes the mesh, also when f fails.
MeshTryMapInto ==
    /\ mesh # NoMesh
    /\ \E f \in TryMapFns :
        LET out == TryMapValues(mesh, f) IN
        /\ mesh' = Produced(out)
        /\ meshOp' = [op |-> "try_map_into", arg |-> f, out |-> out.kind]
    /\ MeshFrame

\* try_map_into_ref (&self): the mesh is still there when f fails.
MeshTryMapIntoRef ==
    /\ mesh # NoMesh
    /\ \E f \in TryMapFns :
        LET out == TryMapValues(mesh, f) IN
        /\ mesh' = IF out.kind = "Mesh" THEN out ELSE mesh
        /\ meshOp' = [op |-> "try_map_into_ref", arg |-> f, out |-> out.kind]
    /\ MeshFrame

MeshJoin ==
    /\ mesh # NoMesh
    /\ mesh.ty = "fut"
    /\ LET out == Join(mesh) IN
        /\ mesh' = Produced(out)
        /\ meshOp' = [op |-> "join", arg |-> <<>>, out |-> out.kind]
    /\ MeshFrame

MeshTranspose ==
    /\ mesh # NoMesh
    /\ mesh.ty = "res"
    /\ LET out == Transpose(mesh) IN
        /\ mesh' = Produced(out)
        /\ meshOp' = [op |-> "transpose", arg |-> <<>>, out |-> out.kind]
    /\ MeshFrame

\* View::subset (&self): on InvalidRange the mesh is still there.
MeshSubset ==
    /\ mesh # NoMesh
    /\ \E target \in Extents \cup Ranges(mesh.region) :
        LET out == Subset(mesh, target) IN
        /\ mesh' = IF out.kind = "Mesh" THEN out ELSE mesh
        /\ meshOp' = [op |-> "subset", arg |-> target, out |-> out.kind]
    /\ MeshFrame

MeshNext ==
    \/ MeshBuildDense
    \/ MeshBuildIndexed
    \/ MeshMapInto
    \/ MeshMapIntoRef
    \/ MeshTryMapInto
    \/ MeshTryMapIntoRef
    \/ MeshJoin
    \/ MeshTranspose
    \/ MeshSubset

SpecMesh == MeshInit /\ [][MeshNext]_vars

(***************************************************************************)
(* The naive reference builder, build_value_mesh_indexed (value_mesh.rs,   *)
(* test module): a Vec<Option<T>> filled by rank.  An Option is modelled   *)
(* as a set: {} is None, {v} is Some(v).                                   *)
(***************************************************************************)
RECURSIVE RefLoop(_, _, _, _, _, _)
RefLoop(r, ps, k, optbuf, nfilled, checks) ==
    LET n == NumRanks(r) IN
    IF k > Len(ps)
    THEN IF nfilled # n
         THEN InvalidRankCardinality(n, nfilled)
         ELSE OkMesh(r, [i \in 1..n |-> CHOOSE v \in optbuf[i - 1] : TRUE])
    ELSE LET rank == ps[k] IN
         IF rank >= n
         THEN IF rank = UsizeMax
              THEN IF checks THEN Panic("overflow") ELSE InvalidRankCardinality(n, 0)
              ELSE InvalidRankCardinality(n, rank + 1)
         ELSE RefLoop(r, ps, k + 1, [optbuf EXCEPT ![rank] = {k}],
                      IF optbuf[rank] = {} THEN nfilled + 1 ELSE nfilled, checks)

build_value_mesh_indexed(r, ps, checks) ==
    RefLoop(r, ps, 1, [i \in 0 .. NumRanks(r) - 1 |-> {}], 0, checks)

(***************************************************************************)
(* Properties of build_indexed.                                            *)
(***************************************************************************)
n_ranks == NumRanks(region)
InBounds(k) == pairs[k] < n_ranks
AllInBounds == \A k \in 1..Len(pairs) : InBounds(k)
DistinctRanks == {pairs[k] : k \in 1..Len(pairs)}
Covers == \A r \in 0 .. n_ranks - 1 : r \in DistinctRanks
HasDuplicate == \E j, k \in 1..Len(pairs) : j < k /\ pairs[j] = pairs[k]
\* The last pair whose rank is r.
LastPairAt(r) ==
    CHOOSE k \in 1..Len(pairs) :
        pairs[k] = r /\ \A j \in k + 1 .. Len(pairs) : pairs[j] # r
\* The first out-of-bounds pair.
FirstOutOfBounds ==
    CHOOSE k \in 1..Len(pairs) :
        ~InBounds(k) /\ \A j \in 1 .. k - 1 : InBounds(j)
Returned == pc = "done" /\ result # Panic("iterator")

\* C1: build_indexed is last-write-wins: for in-bounds pairs that cover every
\* rank, the returned mesh holds at each rank r the value of the last pair
\* whose rank is r, whatever the order and the duplicates.
C1_LastWriteWins ==
    (Returned /\ AllInBounds /\ Covers) =>
        /\ result.kind = "Ok"
        /\ result.region = region
        /\ result.ranks = [i \in 1..n_ranks |-> LastPairAt(i - 1)]

\* A complete input with a duplicated rank, not in rank order, has been built.
C1_Witness ==
    /\ Returned /\ AllInBounds /\ Covers /\ HasDuplicate
    /\ n_ranks >= 2
    /\ \E j, k \in 1..Len(pairs) : j < k /\ pairs[j] > pairs[k]
    /\ result.kind = "Ok"

\* C2: build_indexed fails at the first pair whose rank >= num_ranks with
\* InvalidRankCardinality { expected: num_ranks, actual: rank + 1 }, whatever
\* came before, and consumes no pair after it.
C2_OutOfBoundsError ==
    (Returned /\ ~AllInBounds) =>
        /\ result = InvalidRankCardinality(n_ranks, pairs[FirstOutOfBounds] + 1)
        /\ consumed = FirstOutOfBounds

\* C2 for the ranks below usize::MAX, where `rank + 1` does not overflow.
C2_OutOfBoundsBelowMax ==
    (Returned /\ ~AllInBounds /\ pairs[FirstOutOfBounds] < UsizeMax) =>
        /\ result = InvalidRankCardinality(n_ranks, pairs[FirstOutOfBounds] + 1)
        /\ consumed = FirstOutOfBounds

\* C3: with every pair in bounds, build_indexed succeeds iff the number of
\* distinct ranks seen is num_ranks, and otherwise fails with
\* InvalidRankCardinality { expected: num_ranks, actual: distinct ranks seen };
\* a region of no ranks with no pairs gives the empty mesh.
C3_Coverage ==
    (Returned /\ AllInBounds) =>
        /\ (result.kind = "Ok") <=> (Cardinality(DistinctRanks) = n_ranks)
        /\ result.kind # "Ok" =>
              result = InvalidRankCardinality(n_ranks, Cardinality(DistinctRanks))
        /\ (n_ranks = 0 /\ pairs = <<>>) => result = OkMesh(region, <<>>)

\* A missing-rank failure on an input with duplicates has been returned.
C3_Witness ==
    /\ Returned /\ AllInBounds /\ HasDuplicate
    /\ result.kind = "Err"
    /\ result.actual < Len(pairs)
    /\ result.actual >= 1

\* The k-th value was written into a slot / has since been overwritten.
Written(k) == k <= consumed /\ InBounds(k)
Overwritten(k) == \E j \in k + 1 .. consumed : pairs[j] = pairs[k]
OwnedByMesh(k) == result.kind = "Ok" /\ \E i \in 1..Len(result.ranks) : result.ranks[i] = k

\* C4: at every point, on every exit path (success, out-of-bounds error,
\* missing-rank error, panic), each value written into a slot is owned by
\* the returned mesh or was destroyed exactly once: an overwritten value is
\* destroyed at the overwrite and never again, a value still in its slot is
\* destroyed exactly when the builder exits without a mesh, values never
\* written are not destroyed, and no uninitialized slot is read.
C4_DropExactlyOnce ==
    /\ ~uninitRead
    /\ \A k \in 1..Len(pairs) :
          dropped[k] =
             IF ~Written(k) THEN 0
             ELSE IF Overwritten(k) THEN 1
             ELSE IF pc = "loop" THEN 0
             ELSE IF result.kind = "Ok" THEN 0
             ELSE 1
    /\ \A k \in 1..Len(pairs) :
          OwnedByMesh(k) <=> (result.kind = "Ok" /\ Written(k) /\ ~Overwritten(k))

\* The iterator panicked after a duplicate overwrote a slot and while another
\* value was still held.
C4_Witness ==
    /\ pc = "done"
    /\ result = Panic("iterator")
    /\ \E k \in 1..Len(pairs) : Written(k) /\ Overwritten(k)
    /\ \E k \in 1..Len(pairs) : Written(k) /\ ~Overwritten(k) /\ pairs[k] >= WordBits

\* C5: the optimized builder and the naive Option<T>-array reference builder
\* return the same result on every region and pair sequence: the same mesh,
\* the same InvalidRankCardinality for out-of-bounds and missing-rank inputs.
C5_MatchesReference ==
    Returned => result = build_value_mesh_indexed(region, pairs, overflowChecks)

\* An out-of-bounds pair after complete, duplicated coverage has been reported.
C5_Witness ==
    /\ Returned /\ ~AllInBounds
    /\ result.kind = "Err"
    /\ filled = n_ranks
    /\ n_ranks >= 2
    /\ \E j, k \in 1 .. consumed - 1 : j < k /\ pairs[j] = pairs[k]

(***************************************************************************)
(* C6: every ValueMesh produced by a sequence of build_dense,              *)
(* build_indexed, map_into, try_map_into, their _ref variants, join,       *)
(* transpose and subset has exactly region.num_ranks() values; map, join   *)
(* and transpose keep the region and put the image of the source's i-th    *)
(* value at position i; subset yields the target region with, at each of   *)
(* its positions, the source's value of the same rank, in the order the    *)
(* source holds them; no operation panics on the way.                      *)
(***************************************************************************)
Complete(m) == m # NoMesh => Len(m.ranks) = NumRanks(m.region)

MapOps == {"map_into", "map_into_ref", "try_map_into", "try_map_into_ref"}

KeepsRegionAndOrder ==
    /\ mesh'.region = mesh.region
    /\ Len(mesh'.ranks) = Len(mesh.ranks)
    /\ \A i \in 1..Len(mesh.ranks) :
          IF meshOp'.op \in MapOps
          THEN mesh'.ranks[i] = Apply(meshOp'.arg, mesh.ranks[i])
          ELSE mesh'.ranks[i] = Val(mesh.ranks[i].v)

\* The position, in the source mesh, of the k-th rank of the new region.
SourcePos(k) ==
    CHOOSE p \in 1..Len(RegionRanks(mesh.region)) :
        RegionRanks(mesh.region)[p] = RegionRanks(mesh'.region)[k]

SelectsInOrder ==
    /\ mesh'.region = meshOp'.arg
    /\ \A k \in 1..Len(mesh'.ranks) :
          /\ \E p \in 1..Len(RegionRanks(mesh.region)) :
                RegionRanks(mesh.region)[p] = RegionRanks(mesh'.region)[k]
          /\ mesh'.ranks[k] = mesh.ranks[SourcePos(k)]
          /\ k > 1 => SourcePos(k - 1) < SourcePos(k)

C6_Step ==
    /\ Complete(mesh')
    /\ meshOp'.out # "Panic"
    /\ meshOp'.out = "Mesh" =>
          /\ mesh' # NoMesh
          /\ meshOp'.op \in MapOps \cup {"join", "transpose"} => KeepsRegionAndOrder
          /\ meshOp'.op = "subset" => SelectsInOrder

C6_CompleteAndOrdered == [][C6_Step]_vars

\* A subset of a two-axis mesh that was mapped before, selecting two values
\* that are not adjacent in the source.
C6_Witness ==
    /\ meshOp.op = "subset"
    /\ meshOp.out = "Mesh"
    /\ mesh.ty = "fut"
    /\ Len(mesh.ranks) = 2
    /\ RegionRanks(mesh.region)[2] - RegionRanks(mesh.region)[1] > 1
    /\ mesh.ranks[1].v # mesh.ranks[2].v

(***************************************************************************)
(* ProcMesh::spawn's router entry and ProcEvents::next                     *)
(* (hyperactor_mesh/src/proc_mesh.rs).                                     *)
(***************************************************************************)
\* ProcId::Ranked(WorldId(world), rank) and ActorId(proc_id, name, pid)
Ranked(world, rank) == [world |-> world, rank |-> rank]
ActorId(proc_id, name, pid) == [proc_id |-> proc_id, name |-> name, pid |-> pid]

\* ProcMesh.ranks, in rank order, as the alloc handed the procs out.  The
\* create key of rank r is NumProcs - r; 0 is the key of no proc of the mesh.
MeshWorld == "w"
CreateKey(rank) == NumProcs - rank
MeshRanks ==
    [i \in 1..NumProcs |->
        [create_key |-> CreateKey(i - 1), proc_id |-> Ranked(MeshWorld, i - 1)]]

\* ProcEvents.ranks as ProcMesh::events collects it: proc id -> (rank, create
\* key); collecting into the HashMap keeps the last entry of a proc id.
EventsRanks ==
    [p \in {MeshRanks[i].proc_id : i \in 1..NumProcs} |->
        LET i == CHOOSE j \in 1..NumProcs :
                     /\ MeshRanks[j].proc_id = p
                     /\ \A h \in j + 1 .. NumProcs : MeshRanks[h].proc_id # p
        IN [rank |-> i - 1, create_key |-> MeshRanks[i].create_key]]

\* Mutant of RanksFind: the create key is taken for a rank.
RanksFindByRank(create_key) ==
    {p \in DOMAIN EventsRanks : EventsRanks[p].rank = create_key}

\* Mutant of RanksFind: the first entry is found whatever the create key.
RanksFindAnyKey(create_key) == DOMAIN EventsRanks

\* self.ranks.iter().find(|(_, (_, key))| key == &create_key), an Option as a set
\* (of every entry the iteration order may find first).
RanksFind(create_key) ==
    {p \in DOMAIN EventsRanks : EventsRanks[p].create_key = create_key}

\* Mutant of RanksGet: the lookup goes by the rank of the proc id alone.
RanksGetAnyWorld(proc_id) ==
    {EventsRanks[p] : p \in {q \in DOMAIN EventsRanks : q.rank = proc_id.rank}}

\* Mutant of RanksGet: a proc id that is not in the table gets the entry of
\* the first proc.
RanksGetOrFirst(proc_id) ==
    IF proc_id \in DOMAIN EventsRanks
    THEN {EventsRanks[proc_id]}
    ELSE {EventsRanks[Ranked(MeshWorld, 0)]}

\* self.ranks.get(proc_id)
RanksGet(proc_id) ==
    IF proc_id \in DOMAIN EventsRanks THEN {EventsRanks[proc_id]} ELSE {}

\* ActorStatus::Failed, message headers, ActorSupervisionEvent
Failed(msg) == [kind |-> "Failed", msg |-> msg]
NoHeaders == [some |-> FALSE]
Headers(cast) == [some |-> TRUE, cast |-> cast]
ActorSupervisionEvent(actor_id, actor_status, message_headers) ==
    [actor_id |-> actor_id, actor_status |-> actor_status,
     message_headers |-> message_headers, caused_by |-> "None"]

\* event.to_string()
Display(event) == [display |-> event.actor_id, status |-> event.actor_status]

\* The dummy event next makes for a stopped proc.
ProcStoppedEvent(proc_id) ==
    ActorSupervisionEvent(ActorId(proc_id, "any", 0),
                          Failed(<<"proc", proc_id, "is stopped">>),
                          NoHeaders)

\* Mutant of Normalize: the comm actor's id is left in place.
NormalizeKeepsActor(event) == event

\* The rewrite of actor_id from the CAST_ACTOR_MESH_ID header
\* (mesh id, mesh name), if the event has headers and they have that key.
Normalize(event) ==
    IF event.message_headers.some /\ event.message_headers.cast # {}
    THEN LET actor_mesh_id == CHOOSE c \in event.message_headers.cast : TRUE
         IN [event EXCEPT !.actor_id =
                 ActorId(Ranked(actor_mesh_id.mesh_id, 0), actor_mesh_id.name, 0)]
    ELSE event

\* mpsc::unbounded_channel: the queue, what the receiver has taken from it,
\* whether the sender, the receiver are alive and recv() has returned None;
\* sent is the log of every event send() has accepted.
NewChan(name) ==
    [name |-> name, queue |-> <<>>, received |-> <<>>, sent |-> <<>>,
     tx |-> TRUE, rx |-> TRUE, ended |-> FALSE]

\* Mutant of Send: the event is not queued.
SendDropsEvent(cs, c, event) == cs

\* UnboundedSender::send: queues the event unless the receiver is gone.
Send(cs, c, event) ==
    IF cs[c].rx
    THEN [cs EXCEPT ![c].queue = Append(@, event), ![c].sent = Append(@, event)]
    ELSE cs

\* Dropping senders (the values removed from the router).
DropSenders(cs, dead) ==
    [c \in 1..Len(cs) |-> IF c \in dead THEN [cs[c] EXCEPT !.tx = FALSE] ELSE cs[c]]

\* Sending one event to every entry of the router.
RECURSIVE SendAll(_, _, _)
SendAll(cs, targets, event) ==
    IF targets = {} THEN cs
    ELSE LET c == CHOOSE x \in targets : TRUE
         IN SendAll(Send(cs, c, event), targets \ {c}, event)

Registered == {router[n] : n \in DOMAIN router}

\* Mutant of RouterClear: the senders stay in the router.
RouterClearKeepsSenders(r, cs) == [router |-> r, chans |-> cs]

\* DashMap::clear: the entries go, and with them the senders.
RouterClear(r, cs) ==
    [router |-> [n \in {} |-> 0],
     chans |-> DropSenders(cs, {r[n] : n \in DOMAIN r})]

\* The inputs: actor mesh names, alloc states, supervision events.
Names == {"a", "b"}
\* Spawns: as many as there are names, so that a name can also be spawned twice.
MaxChans == Cardinality(Names)
StopReasons == {"Stopped", "Killed"}
ProcState(kind, create_key, reason) ==
    [kind |-> kind, create_key |-> create_key, reason |-> reason]
AllocStates ==
    {ProcState("Created", 0, "None"), ProcState("Running", CreateKey(0), "None"),
     ProcState("Stopped", 0, "Stopped")}
      \cup {ProcState("Stopped", CreateKey(r), "Stopped") : r \in 0 .. NumProcs - 1}
      \cup {ProcState("Stopped", CreateKey(0), why) : why \in StopReasons}
CastIds == {[mesh_id |-> MeshWorld, name |-> "a"], [mesh_id |-> "m", name |-> "b"]}
SupervisionInputs ==
    {ActorSupervisionEvent(ActorId(Ranked(MeshWorld, NumProcs - 1), "a", 0),
                           Failed(<<"boom">>), NoHeaders),
     ActorSupervisionEvent(ActorId(Ranked(MeshWorld, NumProcs - 1), "b", 0),
                           Failed(<<"boom">>), Headers({}))}
      \cup {ActorSupervisionEvent(ActorId(Ranked(MeshWorld, NumProcs - 1), "comm", 0),
                                  Failed(<<"undeliverable">>), Headers({c})) : c \in CastIds}

Continue == [kind |-> "Continue"]
StreamClosed == [kind |-> "None"]
Stopped(rank, reason) == [kind |-> "Stopped", rank |-> rank, reason |-> reason]
Crashed(rank, reason) == [kind |-> "Crashed", rank |-> rank, reason |-> reason]

EventsFrame == UNCHANGED <<buildVars, meshVars, procVars, sinkVars, spawnVars, rdmaVars, viewVars, streamVars>>

EventsInit == EventsIdle /\ BuildIdle /\ MeshIdle /\ ProcIdle

\* next is called (again) and reads one more input.
CanRead == calls < MaxCalls /\ ret # StreamClosed

\* ProcMesh::spawn: a new channel, its sender put in the router under the
\* actor name (a sender already there is dropped), then spawn_on_procs; if
\* that fails the receiver is dropped with the error, the sender stays.
Spawn ==
    /\ Len(chans) < MaxChans
    /\ \E name \in Names, spawned \in BOOLEAN :
        LET c == Len(chans) + 1
            replaced == IF name \in DOMAIN router THEN {router[name]} ELSE {}
        IN /\ chans' = Append(DropSenders(chans, replaced),
                              [NewChan(name) EXCEPT !.rx = spawned])
           /\ router' = [n \in DOMAIN router \cup {name} |->
                            IF n = name THEN c ELSE router[n]]
    /\ UNCHANGED <<calls, input, ret, closeChans>>
    /\ EventsFrame

\* alloc.next() is None: clear the router, break None.
NextAllocClosed ==
    /\ CanRead
    /\ LET cleared == RouterClear(router, chans) IN
        /\ router' = cleared.router
        /\ chans' = cleared.chans
    /\ calls' = calls + 1
    /\ input' = [src |-> "alloc", item |-> StreamClosed]
    /\ ret' = StreamClosed
    /\ closeChans' = Len(chans)
    /\ EventsFrame

\* alloc.next() is a state other than Stopped: continue.
NextAllocIgnored ==
    /\ CanRead
    /\ \E st \in AllocStates :
        /\ st.kind # "Stopped"
        /\ input' = [src |-> "alloc", item |-> st]
    /\ calls' = calls + 1
    /\ ret' = Continue
    /\ UNCHANGED <<router, chans, closeChans>>
    /\ EventsFrame

\* alloc.next() is Stopped with a create key of no proc of the mesh: continue.
NextAllocUnmapped ==
    /\ CanRead
    /\ \E st \in AllocStates :
        /\ st.kind = "Stopped"
        /\ RanksFind(st.create_key) = {}
        /\ input' = [src |-> "alloc", item |-> st]
    /\ calls' = calls + 1
    /\ ret' = Continue
    /\ UNCHANGED <<router, chans, closeChans>>
    /\ EventsFrame

\* alloc.next() is Stopped with the create key of a proc of the mesh: send the
\* dummy event to every entry of the router, break Some(Stopped(rank, reason)).
NextAllocStopped ==
    /\ CanRead
    /\ \E st \in AllocStates :
        /\ st.kind = "Stopped"
        /\ \E proc_id \in RanksFind(st.create_key) :
            /\ chans' = SendAll(chans, Registered, ProcStoppedEvent(proc_id))
            /\ ret' = Stopped(EventsRanks[proc_id].rank, st.reason)
        /\ input' = [src |-> "alloc", item |-> st]
    /\ calls' = calls + 1
    /\ UNCHANGED <<router, closeChans>>
    /\ EventsFrame

\* supervision_events.recv() is Ok(event): normalize, forward to the actor mesh
\* registered under the actor's name, break Some(Crashed(rank, reason)) if the
\* actor's proc has a rank, else continue.
NextSupervision ==
    /\ CanRead
    /\ \E received \in SupervisionInputs :
        LET event == Normalize(received)
            actor_id == event.actor_id
            found == RanksGet(actor_id.proc_id)
        IN /\ chans' = IF actor_id.name \in DOMAIN router
                       THEN Send(chans, router[actor_id.name], event)
                       ELSE chans
           /\ ret' = IF found = {}
                     THEN Continue
                     ELSE Crashed((CHOOSE e \in found : TRUE).rank, Display(event))
           /\ input' = [src |-> "supervision", item |-> received]
    /\ calls' = calls + 1
    /\ UNCHANGED <<router, closeChans>>
    /\ EventsFrame

\* An actor mesh takes its next event: the head of the queue, or None once
\* the queue is empty and the sender is gone.
SubscriberRecv ==
    /\ \E c \in 1..Len(chans) :
        /\ chans[c].rx
        /\ ~chans[c].ended
        /\ \/ /\ chans[c].queue # <<>>
              /\ chans' = [chans EXCEPT ![c].received = Append(@, Head(chans[c].queue)),
                                        ![c].queue = Tail(@)]
           \/ /\ chans[c].queue = <<>>
              /\ ~chans[c].tx
              /\ chans' = [chans EXCEPT ![c].ended = TRUE]
    /\ UNCHANGED <<router, calls, input, ret, closeChans>>
    /\ EventsFrame

EventsNext ==
    \/ Spawn
    \/ NextAllocClosed
    \/ NextAllocIgnored
    \/ NextAllocUnmapped
    \/ NextAllocStopped
    \/ NextSupervision
    \/ SubscriberRecv

SpecEvents == EventsInit /\ [][EventsNext]_vars

(***************************************************************************)
(* C7: the iteration of next that read the alloc state Stopped             *)
(* { create_key, reason } breaks with Stopped(rank, reason) exactly when   *)
(* create_key is the key of a proc of the mesh, rank being that proc's     *)
(* index in the mesh; every other alloc state makes the loop continue, and *)
(* Stopped is the outcome of no other input.                               *)
(***************************************************************************)
MeshIndexOf(create_key) ==
    {i - 1 : i \in {j \in 1..NumProcs : MeshRanks[j].create_key = create_key}}

C7_StoppedExactly ==
    /\ input.src = "alloc" /\ input.item.kind = "Stopped" =>
          /\ \A rank \in MeshIndexOf(input.item.create_key) :
                ret = Stopped(rank, input.item.reason)
          /\ MeshIndexOf(input.item.create_key) = {} => ret = Continue
    /\ input.src = "alloc" /\ input.item.kind \in {"Created", "Running"} =>
          ret = Continue
    /\ ret.kind = "Stopped" =>
          /\ input.src = "alloc"
          /\ input.item.kind = "Stopped"
          /\ MeshIndexOf(input.item.create_key) # {}

\* Rank 0, whose create key is not 0, stopped with a reason other than the
\* usual one.
C7_Witness ==
    /\ ret = Stopped(0, "Killed")
    /\ input.item.create_key = NumProcs

(***************************************************************************)
(* C8: in the step in which next breaks with Stopped(rank, _), every       *)
(* channel registered in the router whose receiver is alive gets, at the   *)
(* tail of its queue, the event with actor_id (proc of rank, "any", 0),    *)
(* status Failed and no headers: the event is queued when the caller sees  *)
(* Stopped.                                                                *)
(***************************************************************************)
C8_Step ==
    ret'.kind = "Stopped" /\ calls' = calls + 1 =>
        \A n \in DOMAIN router :
            LET c == router[n] IN
            chans[c].rx =>
                /\ n \in DOMAIN router' /\ router'[n] = c
                /\ Len(chans'[c].queue) = Len(chans[c].queue) + 1
                /\ SubSeq(chans'[c].queue, 1, Len(chans[c].queue)) = chans[c].queue
                /\ LET e == chans'[c].queue[Len(chans'[c].queue)] IN
                    /\ e.actor_id = [proc_id |-> MeshRanks[ret'.rank + 1].proc_id,
                                     name |-> "any", pid |-> 0]
                    /\ e.actor_status.kind = "Failed"
                    /\ e.message_headers = [some |-> FALSE]

C8_SyntheticEventQueued == [][C8_Step]_vars

\* Two actor meshes registered, both holding the event of the stopped proc.
C8_Witness ==
    /\ ret.kind = "Stopped"
    /\ DOMAIN router = Names
    /\ \A n \in Names :
          /\ chans[router[n]].rx
          /\ chans[router[n]].queue # <<>>
          /\ chans[router[n]].queue[Len(chans[router[n]].queue)].actor_id
                = [proc_id |-> MeshRanks[ret.rank + 1].proc_id, name |-> "any", pid |-> 0]

(***************************************************************************)
(* C9: when alloc.next() is None, next returns None and no sender of a     *)
(* channel made before is left, in the router or elsewhere; at all times   *)
(* a receiver has taken, in order, a prefix of what was sent to it and     *)
(* the rest is in its queue; its stream ends only after it has taken all   *)
(* of it, and once the senders are gone nothing stops it from ending.      *)
(***************************************************************************)
C9_ClosedStream ==
    /\ input.src = "alloc" /\ input.item.kind = "None" <=> ret.kind = "None"
    /\ ret.kind = "None" =>
          /\ \A n \in DOMAIN router : router[n] > closeChans
          /\ \A c \in 1..Len(chans) : c <= closeChans => ~chans[c].tx
    /\ \A c \in 1..Len(chans) :
          /\ chans[c].received \o chans[c].queue = chans[c].sent
          /\ chans[c].ended => chans[c].received = chans[c].sent /\ ~chans[c].tx
          /\ chans[c].tx <=> \E n \in DOMAIN router : router[n] = c

\* After the close an actor mesh has taken two events, in the order they were
\* sent, and then found its stream ended.
C9_Witness ==
    /\ ret.kind = "None"
    /\ \E c \in 1..Len(chans) :
          /\ c <= closeChans
          /\ chans[c].ended
          /\ Len(chans[c].received) = 2
          /\ chans[c].received[1] # chans[c].received[2]

(***************************************************************************)
(* C10: in the step in which next reads a supervision event, the event is  *)
(* queued once, on the channel registered under the name it is routed by:  *)
(* with a CAST_ACTOR_MESH_ID header (mesh_id, mesh_name) its actor_id is   *)
(* first replaced by (rank 0 of world mesh_id, mesh_name, 0) and the name  *)
(* is mesh_name; without headers or without that header the event is       *)
(* unchanged and the name is its actor's.                                  *)
(***************************************************************************)
C10_Expected(ev) ==
    IF ev.message_headers.some /\ ev.message_headers.cast # {}
    THEN LET id == CHOOSE x \in ev.message_headers.cast : TRUE IN
         [actor_id |-> [proc_id |-> [world |-> id.mesh_id, rank |-> 0],
                        name |-> id.name, pid |-> 0],
          actor_status |-> ev.actor_status,
          message_headers |-> ev.message_headers,
          caused_by |-> ev.caused_by]
    ELSE ev

C10_Step ==
    input'.src = "supervision" /\ calls' = calls + 1 =>
        LET e == C10_Expected(input'.item) IN
        /\ router' = router
        /\ \A c \in 1..Len(chans) :
              IF /\ e.actor_id.name \in DOMAIN router
                 /\ router[e.actor_id.name] = c
                 /\ chans[c].rx
              THEN chans'[c].queue = Append(chans[c].queue, e)
              ELSE chans'[c].queue = chans[c].queue

C10_RewriteAndRoute == [][C10_Step]_vars

\* A comm actor's event with the header naming mesh "a" is in the queue of
\* the actor mesh registered as "a", under the mesh-level id.
C10_Witness ==
    /\ input.src = "supervision"
    /\ input.item.actor_id.name = "comm"
    /\ input.item.message_headers = Headers({[mesh_id |-> MeshWorld, name |-> "a"]})
    /\ "a" \in DOMAIN router
    /\ LET q == chans[router["a"]].queue IN
        /\ q # <<>>
        /\ q[Len(q)].actor_id = ActorId(Ranked(MeshWorld, 0), "a", 0)
        /\ q[Len(q)].actor_status = input.item.actor_status

(***************************************************************************)
(* C11: in the step in which next reads a supervision event, the event     *)
(* (under its mesh-level id when it has the cast header) is queued for the *)
(* actor mesh registered under its actor name, and the caller gets         *)
(* Crashed(rank, event.to_string()) exactly when the event's proc is one   *)
(* of the mesh's procs, rank being that proc's index; an event of any      *)
(* other proc is dropped and the loop goes on.                             *)
(***************************************************************************)
C11_ProcIndex(proc_id) ==
    {i - 1 : i \in {j \in 1..NumProcs : MeshRanks[j].proc_id = proc_id}}

C11_Step ==
    input'.src = "supervision" /\ calls' = calls + 1 =>
        LET e == C10_Expected(input'.item)
            reason == [display |-> e.actor_id, status |-> e.actor_status]
        IN /\ IF C11_ProcIndex(e.actor_id.proc_id) = {}
              THEN ret' = Continue
              ELSE \A rank \in C11_ProcIndex(e.actor_id.proc_id) :
                       ret' = Crashed(rank, reason)
           /\ e.actor_id.name \in DOMAIN router /\ chans[router[e.actor_id.name]].rx =>
                 LET q == chans'[router[e.actor_id.name]].queue IN
                 q # <<>> /\ q[Len(q)] = e

C11_SurfacedWhenMapped == [][C11_Step]_vars

\* The claim as stated: whatever supervision event was read, the caller got
\* Crashed.
C11_AlwaysCrashed ==
    input.src = "supervision" => ret.kind = "Crashed"

\* An event of actor "a" on the last proc has reached the caller as Crashed
\* of that rank, and the actor mesh registered as "a" holds it.
C11_Witness ==
    /\ input.src = "supervision"
    /\ input.item.actor_id.name = "a"
    /\ ret.kind = "Crashed"
    /\ ret.rank = NumProcs - 1
    /\ "a" \in DOMAIN router
    /\ LET q == chans[router["a"]].queue IN
        q # <<>> /\ q[Len(q)] = input.item

(***************************************************************************)
(* The lifetime of a ProcEvents stream over an alloc whose procs are all   *)
(* running (ProcMesh::allocate has consumed Created and Running).  The     *)
(* alloc reports each proc it loses once: a proc killed by the chaos       *)
(* monkey with the kill reason, the procs still running at stop() with     *)
(* reason Stopped, one after the other in any order; after stop() and the  *)
(* last Stopped its next() is None.                                        *)
(***************************************************************************)
LifecycleInit ==
    /\ alloc = [procs |-> [r \in 0 .. NumProcs - 1 |-> "running"],
                queue |-> <<>>, stopping |-> FALSE]
    /\ stoppedSeen = <<>>
    /\ SinkIdle /\ SpawnIdle /\ EventsIdle /\ BuildIdle /\ MeshIdle
    /\ RdmaIdle /\ ViewIdle /\ StreamIdle

AllocLose(rank, reason) ==
    [alloc EXCEPT !.procs[rank] = reason,
                  !.queue = Append(@, ProcState("Stopped", CreateKey(rank), reason))]

\* monkey(rank, reason): a running proc is killed.
ChaosMonkey ==
    /\ \E rank \in DOMAIN alloc.procs :
        /\ alloc.procs[rank] = "running"
        /\ alloc' = AllocLose(rank, "Killed")
    /\ UNCHANGED <<eventVars, stoppedSeen>>
    /\ UNCHANGED <<buildVars, meshVars, sinkVars, spawnVars, rdmaVars, viewVars, streamVars>>

\* stop(): teardown begins.
Stopper ==
    /\ ~alloc.stopping
    /\ alloc' = [alloc EXCEPT !.stopping = TRUE]
    /\ UNCHANGED <<eventVars, stoppedSeen>>
    /\ UNCHANGED <<buildVars, meshVars, sinkVars, spawnVars, rdmaVars, viewVars, streamVars>>

\* Teardown stops one of the procs still running.
AllocStopProc ==
    /\ alloc.stopping
    /\ \E rank \in DOMAIN alloc.procs :
        /\ alloc.procs[rank] = "running"
        /\ alloc' = AllocLose(rank, "Stopped")
    /\ UNCHANGED <<eventVars, stoppedSeen>>
    /\ UNCHANGED <<buildVars, meshVars, sinkVars, spawnVars, rdmaVars, viewVars, streamVars>>

\* next takes the alloc's Stopped state (its create key is that of a proc of
\* the mesh, the alloc being the mesh's own): the dummy event to every entry
\* of the router, break Some(Stopped(rank, reason)).
LifecycleNextStopped ==
    /\ CanRead
    /\ alloc.queue # <<>>
    /\ LET st == Head(alloc.queue) IN
        /\ \E proc_id \in RanksFind(st.create_key) :
            /\ chans' = SendAll(chans, Registered, ProcStoppedEvent(proc_id))
            /\ ret' = Stopped(EventsRanks[proc_id].rank, st.reason)
            /\ stoppedSeen' = Append(stoppedSeen, ret')
        /\ input' = [src |-> "alloc", item |-> st]
    /\ alloc' = [alloc EXCEPT !.queue = Tail(@)]
    /\ calls' = calls + 1
    /\ UNCHANGED <<router, closeChans>>
    /\ UNCHANGED <<buildVars, meshVars, sinkVars, spawnVars, rdmaVars, viewVars, streamVars>>

\* next finds the alloc closed (stopped, every proc gone and reported): clear
\* the router, break None.
LifecycleNextClosed ==
    /\ CanRead
    /\ alloc.stopping
    /\ alloc.queue = <<>>
    /\ \A rank \in DOMAIN alloc.procs : alloc.procs[rank] # "running"
    /\ LET cleared == RouterClear(router, chans) IN
        /\ router' = cleared.router
        /\ chans' = cleared.chans
    /\ calls' = calls + 1
    /\ input' = [src |-> "alloc", item |-> StreamClosed]
    /\ ret' = StreamClosed
    /\ closeChans' = Len(chans)
    /\ UNCHANGED <<alloc, stoppedSeen>>
    /\ UNCHANGED <<buildVars, meshVars, sinkVars, spawnVars, rdmaVars, viewVars, streamVars>>

LifecycleNext ==
    \/ ChaosMonkey
    \/ Stopper
    \/ AllocStopProc
    \/ LifecycleNextStopped
    \/ LifecycleNextClosed
    \/ Spawn
    \/ SubscriberRecv

SpecLifecycle == LifecycleInit /\ [][LifecycleNext]_vars

(***************************************************************************)
(* C12: over the lifetime of the stream no rank is in two of the Stopped   *)
(* events next has returned; each carries the reason its proc was lost     *)
(* with (the kill reason of a killed proc, Stopped for a proc stopped by   *)
(* teardown); and when next has returned None every rank has been          *)
(* reported.                                                               *)
(***************************************************************************)
C12_StoppedOncePerRank ==
    /\ \A i, j \in 1..Len(stoppedSeen) :
          i # j => stoppedSeen[i].rank # stoppedSeen[j].rank
    /\ \A i \in 1..Len(stoppedSeen) :
          /\ stoppedSeen[i].rank \in DOMAIN alloc.procs
          /\ stoppedSeen[i].reason = alloc.procs[stoppedSeen[i].rank]
    /\ ret = StreamClosed =>
          {stoppedSeen[i].rank : i \in 1..Len(stoppedSeen)} = 0 .. NumProcs - 1

\* The last rank was killed and reported first, the others were reported as
\* Stopped after stop(), and next has returned None.
C12_Witness ==
    /\ ret = StreamClosed
    /\ Len(stoppedSeen) = NumProcs
    /\ stoppedSeen[1] = Stopped(NumProcs - 1, "Killed")
    /\ \A i \in 2..NumProcs : stoppedSeen[i].reason = "Stopped"

(***************************************************************************)
(* The process-global supervision sink (proc_mesh.rs, 82-185 and step 5 of *)
(* allocate).  Each mesh of SinkMeshes is allocated once, by its own task; *)
(* the supervision port of a mesh is named by the mesh.  An allocate is    *)
(* followed through set_global_supervision_sink statement by statement:    *)
(*   "start" -> "locked" (cell.write()) -> "taken" (guard.take())          *)
(*           -> "stored" (Some(sink) is stored) -> "installed" (prev is    *)
(*              returned, the guard dropped) -> "bound" (the mesh's own    *)
(*              client undeliverables are wired to its port).              *)
(***************************************************************************)
SinkMeshes == {"A", "B", "C"}
MaxUndeliverable == 2

\* Mutant of WriteLockFree: the write lock is never contended.
WriteLockAlwaysFree(lock) == TRUE

\* RwLock::write: granted when nobody holds the lock.
WriteLockFree(lock) == lock = "free"

\* Mutant of RootSink: the sink that was installed when the root client was made.
RootSinkCaptured(made_with, cell) == made_with

\* The resolver handed to supervise_undeliverable_messages_with is the function
\* get_global_supervision_sink, called for each undeliverable: the cell's
\* content at that moment.
RootSink(made_with, cell) == cell

\* Mutant of MeshSink: a mesh's client forwards to the global sink.
MeshSinkGlobal(m, cell) == IF cell = "None" THEN m ELSE cell

\* supervise_undeliverable_messages(supervision_port.clone(), ..) in allocate:
\* the port of the mesh being allocated.
MeshSink(m, cell) == m

\* Number of undeliverables processed so far, by the root client or a mesh's.
Undelivered ==
    Len(rootClient.log)
      + Cardinality({x \in SinkMeshes \X (1..MaxUndeliverable) :
                        /\ x[2] <= Len(ports[x[1]])
                        /\ ports[x[1]][x[2]].from # "root"})

SinkInit ==
    /\ gsink = [cell |-> "None", lock |-> "free", installs |-> <<>>]
    /\ allocs = [m \in SinkMeshes |-> [pc |-> "start", prev |-> "None"]]
    /\ ports = [m \in SinkMeshes |-> <<>>]
    /\ rootClient = [created |-> FALSE, made_with |-> "None", log |-> <<>>]
    /\ AllocIdle /\ SpawnIdle /\ EventsIdle /\ BuildIdle /\ MeshIdle
    /\ RdmaIdle /\ ViewIdle /\ StreamIdle

\* set_global_supervision_sink(supervision_port.clone()) in the allocate of
\* mesh m, one statement at a time.
set_global_supervision_sink(m) ==
    /\ \/ \* let mut guard = cell.write().unwrap();
          /\ allocs[m].pc = "start"
          /\ WriteLockFree(gsink.lock)
          /\ gsink' = [gsink EXCEPT !.lock = m]
          /\ allocs' = [allocs EXCEPT ![m].pc = "locked"]
       \/ \* let prev = guard.take();
          /\ allocs[m].pc = "locked"
          /\ gsink' = [gsink EXCEPT !.cell = "None"]
          /\ allocs' = [allocs EXCEPT ![m] = [pc |-> "taken", prev |-> gsink.cell]]
       \/ \* *guard = Some(sink);
          /\ allocs[m].pc = "taken"
          /\ gsink' = [gsink EXCEPT
                          !.cell = m,
                          !.installs = Append(@, [sink |-> m, prev |-> allocs[m].prev])]
          /\ allocs' = [allocs EXCEPT ![m].pc = "stored"]
       \/ \* prev is returned and the guard dropped
          /\ allocs[m].pc = "stored"
          /\ gsink' = [gsink EXCEPT !.lock = IF @ = m THEN "free" ELSE @]
          /\ allocs' = [allocs EXCEPT ![m].pc = "installed"]
    /\ UNCHANGED <<ports, rootClient>>
    /\ UNCHANGED <<buildVars, meshVars, eventVars, procVars, spawnVars, rdmaVars, viewVars, streamVars>>

\* The mesh's own client: its undeliverable port is bound and supervised.
BindClient(m) ==
    /\ allocs[m].pc = "installed"
    /\ allocs' = [allocs EXCEPT ![m].pc = "bound"]
    /\ UNCHANGED <<gsink, ports, rootClient>>
    /\ UNCHANGED <<buildVars, meshVars, eventVars, procVars, spawnVars, rdmaVars, viewVars, streamVars>>

\* global_root_client(): the first call makes the client and supervises its
\* undeliverable port.
RootClientInit ==
    /\ ~rootClient.created
    /\ rootClient' = [rootClient EXCEPT !.created = TRUE, !.made_with = gsink.cell]
    /\ UNCHANGED <<gsink, allocs, ports>>
    /\ UNCHANGED <<buildVars, meshVars, eventVars, procVars, spawnVars, rdmaVars, viewVars, streamVars>>

\* The root client processes an undeliverable: the sink is resolved (a read of
\* the cell, not while a writer holds the lock) and the event sent to it; with
\* no sink the event is not forwarded.
RootUndeliverable ==
    /\ rootClient.created
    /\ Undelivered < MaxUndeliverable
    /\ gsink.lock = "free"
    /\ LET sink == RootSink(rootClient.made_with, gsink.cell)
           event == [from |-> "root", installs |-> Len(gsink.installs), sink |-> sink]
       IN /\ rootClient' = [rootClient EXCEPT !.log = Append(@, event)]
          /\ ports' = IF sink = "None" THEN ports
                      ELSE [ports EXCEPT ![sink] = Append(@, event)]
    /\ UNCHANGED <<gsink, allocs>>
    /\ UNCHANGED <<buildVars, meshVars, eventVars, procVars, spawnVars, rdmaVars, viewVars, streamVars>>

\* A mesh's own client processes an undeliverable.
MeshUndeliverable(m) ==
    /\ allocs[m].pc = "bound"
    /\ Undelivered < MaxUndeliverable
    /\ LET sink == MeshSink(m, gsink.cell)
           event == [from |-> m, installs |-> Len(gsink.installs), sink |-> sink]
       IN ports' = [ports EXCEPT ![sink] = Append(@, event)]
    /\ UNCHANGED <<gsink, allocs, rootClient>>
    /\ UNCHANGED <<buildVars, meshVars, eventVars, procVars, spawnVars, rdmaVars, viewVars, streamVars>>

SinkNext ==
    \/ \E m \in SinkMeshes :
        \/ set_global_supervision_sink(m)
        \/ BindClient(m)
        \/ MeshUndeliverable(m)
    \/ RootClientInit
    \/ RootUndeliverable

SpecSink == SinkInit /\ [][SinkNext]_vars

(***************************************************************************)
(* C14: the sets are totally ordered by their store.  Each returns the     *)
(* sink stored by the set before it (None for the first), so no sink is    *)
(* returned as previous twice; while no set is in progress the cell holds  *)
(* the sink of the last set; and every read of the cell got the sink of    *)
(* the last set stored before the read.                                    *)
(***************************************************************************)
C14_LastSinkWins ==
    LET installs == gsink.installs
        last(n) == IF n = 0 THEN "None" ELSE installs[n].sink
    IN /\ \A i \in 1..Len(installs) : installs[i].prev = last(i - 1)
       /\ \A i, j \in 1..Len(installs) :
             i # j /\ installs[i].prev # "None" => installs[i].prev # installs[j].prev
       /\ \A m \in SinkMeshes :
             allocs[m].pc \in {"installed", "bound"} =>
                 \E i \in 1..Len(installs) :
                     installs[i] = [sink |-> m, prev |-> allocs[m].prev]
       /\ gsink.lock = "free" => gsink.cell = last(Len(installs))
       /\ \A k \in 1..Len(rootClient.log) :
             rootClient.log[k].sink = last(rootClient.log[k].installs)

\* Three sets have returned, the second and third returning the sink of the
\* one before, and the cell was read between the second and the third.
C14_Witness ==
    /\ Len(gsink.installs) = 3
    /\ \A m \in SinkMeshes : allocs[m].pc \in {"installed", "bound"}
    /\ gsink.installs[3].prev = gsink.installs[2].sink
    /\ \E k \in 1..Len(rootClient.log) :
          /\ rootClient.log[k].installs = 2
          /\ rootClient.log[k].sink = gsink.installs[2].sink

(***************************************************************************)
(* C15: in the step in which the root client processes an undeliverable,   *)
(* the event goes to the port that is in the cell in that step (to none if *)
(* the cell is empty) and to no other port, whatever was in the cell when  *)
(* the root client was made.                                               *)
(***************************************************************************)
C15_Step ==
    Len(rootClient'.log) = Len(rootClient.log) + 1 =>
        LET e == rootClient'.log[Len(rootClient'.log)] IN
        /\ e.sink = gsink.cell
        /\ \A m \in SinkMeshes :
              ports'[m] = IF m = gsink.cell THEN Append(ports[m], e) ELSE ports[m]

C15_CurrentSink == [][C15_Step]_vars

\* The root client was made while mesh A's sink was installed and forwarded
\* one undeliverable to A; after B's set a later one went to B.
C15_Witness ==
    /\ rootClient.made_with = "A"
    /\ Len(rootClient.log) = 2
    /\ rootClient.log[1].sink = "A"
    /\ rootClient.log[2].sink = "B"
    /\ ports["A"] = <<rootClient.log[1]>>
    /\ ports["B"] = <<rootClient.log[2]>>

(***************************************************************************)
(* C16: an undeliverable of a mesh's own client is put on that mesh's own  *)
(* port, whatever the global sink is; and a step of a set, which changes   *)
(* the cell, changes no port and no allocate other than the one setting.   *)
(***************************************************************************)
C16_Step ==
    /\ \A p \in SinkMeshes :
          Len(ports'[p]) > Len(ports[p]) =>
              LET e == ports'[p][Len(ports'[p])] IN
              e.from # "root" =>
                  /\ e.from = p
                  /\ \A q \in SinkMeshes \ {p} : ports'[q] = ports[q]
                  /\ UNCHANGED <<gsink, rootClient>>
    /\ gsink'.cell # gsink.cell =>
          /\ ports' = ports
          /\ rootClient' = rootClient
          /\ \A m \in SinkMeshes : allocs'[m] # allocs[m] => gsink'.lock = m

C16_OwnPort == [][C16_Step]_vars

\* Mesh A's client had an undeliverable after a later allocate had replaced
\* A's sink in the cell: it is on A's port.
C16_Witness ==
    /\ gsink.cell \notin {"A", "None"}
    /\ \E i \in 1..Len(ports["A"]) :
          /\ ports["A"][i].from = "A"
          /\ ports["A"][i].installs >= 2
          /\ gsink.installs[ports["A"][i].installs].sink # "A"

(***************************************************************************)
(* ProcMesh::events, ProcMesh::spawn with spawn_on_procs, and              *)
(* stop_actor_by_name, against the mesh agents.  One spawn or stop is      *)
(* in progress at a time; events() and the stream's next may come at any   *)
(* point.  A mesh agent (not part of proc_mesh.rs) answers gspawn with     *)
(* Success { rank, actor_id }, or with Error when the spawn fails on its   *)
(* proc, as it does for a name already spawned there (a name stays taken   *)
(* on a proc once spawned); it answers stop_actor with Success, NotFound   *)
(* or Timeout.                                                             *)
(***************************************************************************)
NoActor == [kind |-> "None"]
Success(rank, actor_id) == [kind |-> "Success", rank |-> rank, actor_id |-> actor_id]
Error(msg) == [kind |-> "Error", msg |-> msg]

\* Mutant of TakeEventState: the state is cloned, not taken.
TakeEventStateClones(event_state) == [ret |-> event_state, left |-> event_state]

\* self.event_state.take()
TakeEventState(event_state) == [ret |-> event_state, left |-> "None"]

\* Mutant of OnCompletion: an Error completion is skipped.
OnCompletionSkipsError(completed, completion) == [kind |-> "continue", completed |-> completed]

\* The match on a completion in spawn_on_procs: Success is entered under its
\* rank (a completion already there is replaced), Error bails.
OnCompletion(completed, completion) ==
    IF completion.kind = "Success"
    THEN [kind |-> "continue",
          completed |-> [completed EXCEPT ![completion.rank] = completion.actor_id]]
    ELSE [kind |-> "bail", msg |-> <<"gspawn failed", completion.msg>>]

\* Ranks::is_full
IsFull(completed) == \A r \in DOMAIN completed : completed[r] # NoActor

\* Mutant of SpawnReturn: an actor mesh is returned whatever spawn_on_procs said.
SpawnReturnsMesh(ranks) == [kind |-> "Ok", actors |-> <<>>]

\* spawn: spawn_on_procs(..).await? and Ok(root_mesh)
SpawnReturn(ranks) ==
    IF ranks.kind = "Ok" THEN ranks ELSE [kind |-> "Err", msg |-> ranks.msg]

\* Mutant of StopReturn: an outcome other than Success fails the call.
StopReturnFails(results) ==
    IF \A r \in DOMAIN results : results[r] = "Success" THEN "Ok" ELSE "Err"

\* stop_actor_by_name: every outcome is logged, then Ok(()).
StopReturn(results) == "Ok"

\* Mutant of RouterInsert: the sender is not inserted.
RouterInsertSkipped(r, name, c) == r

\* self.actor_event_router.insert(actor_name.to_string(), tx)
RouterInsert(r, name, c) ==
    [n \in DOMAIN r \cup {name} |-> IF n = name THEN c ELSE r[n]]

SpawnInit ==
    /\ pmesh = [event_state |-> "Some", stream |-> [made |-> FALSE], events_rets |-> <<>>]
    /\ agents = [r \in 0 .. NumProcs - 1 |-> [roots |-> {}, actors |-> {}, inbox |-> <<>>]]
    /\ op = NoCall
    /\ done = <<>>
    /\ AllocIdle /\ SinkIdle /\ EventsIdle /\ BuildIdle /\ MeshIdle
    /\ RdmaIdle /\ ViewIdle /\ StreamIdle

\* ProcMesh::events
events ==
    /\ Len(pmesh.events_rets) < Cardinality({"Some", "None"})
    /\ LET taken == TakeEventState(pmesh.event_state) IN
        pmesh' = [event_state |-> taken.left,
                  stream |-> IF taken.ret = "None" THEN pmesh.stream
                             ELSE [made |-> TRUE, event_state |-> taken.ret,
                                   router |-> "actor_event_router"],
                  events_rets |-> Append(pmesh.events_rets, taken.ret)]
    /\ UNCHANGED <<agents, op, done, eventVars>>
    /\ UNCHANGED <<buildVars, meshVars, procVars, sinkVars, rdmaVars, viewVars, streamVars>>

\* ProcMesh::spawn up to the call of spawn_on_procs: the channel is made and
\* its sender inserted in the router under the actor name.
SpawnInsert(name) ==
    /\ op = NoCall
    /\ Len(chans) < MaxChans
    /\ LET c == Len(chans) + 1
           replaced == IF name \in DOMAIN router THEN {router[name]} ELSE {}
       IN /\ chans' = Append(DropSenders(chans, replaced), NewChan(name))
          /\ router' = RouterInsert(router, name, c)
          /\ op' = [kind |-> "spawn", name |-> name, call |-> Len(done) + 1, chan |-> c,
                    sent |-> <<>>, inbox |-> <<>>,
                    completed |-> [r \in 0 .. NumProcs - 1 |-> NoActor]]
    /\ UNCHANGED <<pmesh, agents, done, calls, input, ret, closeChans>>
    /\ UNCHANGED <<buildVars, meshVars, procVars, sinkVars, rdmaVars, viewVars, streamVars>>

\* spawn returns: the call is logged; with an error the receiver is dropped.
SpawnFinish(ranks) ==
    /\ done' = Append(done, [kind |-> "spawn", name |-> op.name,
                             ret |-> SpawnReturn(ranks)])
    /\ chans' = IF SpawnReturn(ranks).kind = "Ok" THEN chans
                ELSE [chans EXCEPT ![op.chan].rx = FALSE]
    /\ op' = NoCall

\* spawn_on_procs, one await at a time: gspawn to the next agent (or the send
\* fails), then completions until every rank has one, then Ok.
spawn_on_procs ==
    /\ op.kind = "spawn"
    /\ \/ /\ Len(op.sent) < NumProcs
          /\ agents' = [agents EXCEPT ![Len(op.sent)].inbox =
                           Append(@, [msg |-> "gspawn", name |-> op.name, call |-> op.call])]
          /\ op' = [op EXCEPT !.sent = Append(@, Len(op.sent))]
          /\ UNCHANGED <<done, chans>>
       \/ /\ Len(op.sent) < NumProcs
          /\ SpawnFinish([kind |-> "Err", msg |-> <<"send">>])
          /\ UNCHANGED agents
       \/ /\ Len(op.sent) = NumProcs
          /\ ~IsFull(op.completed)
          /\ op.inbox # <<>>
          /\ LET next == OnCompletion(op.completed, Head(op.inbox)) IN
              IF next.kind = "continue"
              THEN /\ op' = [op EXCEPT !.completed = next.completed, !.inbox = Tail(@)]
                   /\ UNCHANGED <<done, chans>>
              ELSE SpawnFinish([kind |-> "Err", msg |-> next.msg])
          /\ UNCHANGED agents
       \/ /\ Len(op.sent) = NumProcs
          /\ IsFull(op.completed)
          /\ SpawnFinish([kind |-> "Ok",
                          actors |-> [i \in 1..NumProcs |-> op.completed[i - 1]]])
          /\ UNCHANGED agents
    /\ UNCHANGED <<pmesh, router, calls, input, ret, closeChans>>
    /\ UNCHANGED <<buildVars, meshVars, procVars, sinkVars, rdmaVars, viewVars, streamVars>>

\* The mesh agent of rank r handles the gspawn at the head of its inbox: an
\* Error for a name already spawned on the proc, else the actor is spawned
\* (its completion may be delivered twice) or the spawn fails.
AgentGspawn(r) ==
    /\ agents[r].inbox # <<>>
    /\ LET req == Head(agents[r].inbox)
           rest == [agents[r] EXCEPT !.inbox = Tail(@)]
       IN /\ req.msg = "gspawn"
          /\ \E replies \in
                 IF req.name \in agents[r].roots
                 THEN {<<Error(<<"exists">>)>>}
                 ELSE {<<Error(<<"failed">>)>>}
                        \cup {[i \in 1..n |->
                                  Success(r, ActorId(MeshRanks[r + 1].proc_id, req.name, 0))]
                              : n \in 1..2} :
              /\ agents' = [agents EXCEPT ![r] =
                               IF replies[1].kind = "Success"
                               THEN [rest EXCEPT !.roots = @ \cup {req.name},
                                                 !.actors = @ \cup {req.name}]
                               ELSE rest]
              /\ op' = IF op.kind = "spawn" /\ op.call = req.call
                       THEN [op EXCEPT !.inbox = @ \o replies]
                       ELSE op
    /\ UNCHANGED <<pmesh, done, eventVars>>
    /\ UNCHANGED <<buildVars, meshVars, procVars, sinkVars, rdmaVars, viewVars, streamVars>>

\* At any point after events() the stream reads its first supervision event,
\* or finds the alloc closed.
SpawnNext ==
    \/ events
    \/ \E name \in Names : SpawnInsert(name)
    \/ spawn_on_procs
    \/ \E r \in 0 .. NumProcs - 1 : AgentGspawn(r)
    \/ pmesh.stream.made /\ input = NoInput /\ NextSupervision
    \/ pmesh.stream.made /\ NextAllocClosed

SpecSpawn == SpawnInit /\ [][SpawnNext]_vars

C17_GspawnSent(n) ==
    \/ op.kind = "spawn" /\ op.name = n /\ op.sent # <<>>
    \/ \E r \in DOMAIN agents :
          \/ n \in agents[r].roots
          \/ \E i \in 1..Len(agents[r].inbox) : agents[r].inbox[i].name = n

C17_Step ==
    /\ op'.kind = "spawn" /\ op'.sent # <<>> /\ ret' # StreamClosed =>
          /\ op'.name \in DOMAIN router'
          /\ router'[op'.name] = op'.chan
          /\ chans'[op'.chan].tx
    /\ input'.src = "supervision" /\ calls' = calls + 1 =>
          LET n == C10_Expected(input'.item).actor_id.name IN
          C17_GspawnSent(n) => n \in DOMAIN router /\ chans[router[n]].tx

C17_RegisteredBeforeGspawn == [][C17_Step]_vars

\* The spawn of "a" has sent its first gspawn, which the agent has not handled
\* yet, and next has routed an event of "a" to the spawn's channel.
C17_Witness ==
    /\ op.kind = "spawn" /\ op.name = "a" /\ Len(op.sent) = 1
    /\ agents[0].inbox # <<>>
    /\ input.src = "supervision"
    /\ C10_Expected(input.item).actor_id.name = "a"
    /\ chans[op.chan].queue # <<>>

(***************************************************************************)
(* C18: when spawn returns Ok, one gspawn went to each agent, every rank   *)
(* has a Success completion received and its agent has spawned the actor,  *)
(* and the i-th actor returned is the one reported by rank i, on the proc  *)
(* of rank i; and an Error completion taken from the port makes the spawn  *)
(* return Err in that step.                                                *)
(***************************************************************************)
C18_Step ==
    /\ op.kind = "spawn" /\ op'.kind = "none" =>
          LET r == done'[Len(done')].ret IN
          r.kind = "Ok" =>
              /\ op.sent = [i \in 1..NumProcs |-> i - 1]
              /\ \A rank \in 0 .. NumProcs - 1 :
                    /\ op.completed[rank] # NoActor
                    /\ r.actors[rank + 1] = op.completed[rank]
                    /\ op.completed[rank] = ActorId(MeshRanks[rank + 1].proc_id, op.name, 0)
                    /\ op.name \in agents[rank].actors
    /\ /\ op.kind = "spawn"
       /\ op.inbox # <<>>
       /\ Head(op.inbox).kind = "Error"
       => \/ /\ op'.kind = "spawn"
             /\ op'.inbox # <<>>
             /\ Head(op'.inbox) = Head(op.inbox)
             /\ op'.completed = op.completed
          \/ /\ op'.kind = "none"
             /\ done'[Len(done')].ret.kind \in
                   IF IsFull(op.completed) THEN {"Ok"} ELSE {"Err"}

C18_AllRanksOrError == [][C18_Step]_vars

\* An earlier spawn returned Ok with an actor per rank; the spawn in progress
\* has the Success of rank 0, lacks that of the last rank, and the next
\* completion in its port is rank 0's again.
C18_Witness ==
    /\ Len(done) = 1 /\ done[1].ret.kind = "Ok"
    /\ Len(done[1].ret.actors) = NumProcs
    /\ op.kind = "spawn"
    /\ op.completed[0] # NoActor
    /\ op.completed[NumProcs - 1] = NoActor
    /\ op.inbox # <<>>
    /\ Head(op.inbox) = Success(0, op.completed[0])

(***************************************************************************)
(* C19: a spawn under a name under which an earlier spawn on the mesh      *)
(* returned Ok returns Err.                                                *)
(***************************************************************************)
C19_SpawnTwiceFails ==
    \A i, j \in 1..Len(done) :
        /\ i < j
        /\ done[i].kind = "spawn" /\ done[j].kind = "spawn"
        /\ done[i].name = done[j].name
        /\ done[i].ret.kind = "Ok"
        => done[j].ret.kind = "Err"

\* "a" was spawned, then spawned again: the agents' Error failed the second.
C19_Witness ==
    /\ Len(done) = 2
    /\ done[1].name = "a" /\ done[1].ret.kind = "Ok"
    /\ done[2].name = "a" /\ done[2].ret.kind = "Err"
    /\ done[2].ret.msg = <<"gspawn failed", <<"exists">>>>

(***************************************************************************)
(* stop_actor_by_name against mesh agents with any actors on their procs   *)
(* (what spawns, failed spawns and earlier stops may have left).           *)
(***************************************************************************)
StopInit ==
    /\ pmesh = [event_state |-> "Some", stream |-> [made |-> FALSE], events_rets |-> <<>>]
    /\ agents \in [0 .. NumProcs - 1 ->
                      {[roots |-> a, actors |-> a, inbox |-> <<>>] : a \in SUBSET Names}]
    /\ op = NoCall
    /\ done = <<>>
    /\ AllocIdle /\ SinkIdle /\ EventsIdle /\ BuildIdle /\ MeshIdle
    /\ RdmaIdle /\ ViewIdle /\ StreamIdle

\* stop_actor_by_name: join_all sends stop_actor to every agent (a send may
\* fail), and when every outcome is in, Ok(()).
stop_actor_by_name ==
    /\ \/ /\ op = NoCall
          /\ Len(done) < MaxChans
          /\ \E name \in Names, failed \in SUBSET (0 .. NumProcs - 1) :
              /\ agents' = [r \in DOMAIN agents |->
                              IF r \in failed THEN agents[r]
                              ELSE [agents[r] EXCEPT !.inbox =
                                       Append(@, [msg |-> "stop_actor",
                                                  actor_id |-> ActorId(MeshRanks[r + 1].proc_id,
                                                                       name, 0)])]]
              /\ op' = [kind |-> "stop", name |-> name,
                        before |-> [r \in DOMAIN agents |-> agents[r].actors],
                        results |-> [r \in DOMAIN agents |->
                                        IF r \in failed THEN "Err" ELSE "pending"]]
          /\ UNCHANGED done
       \/ /\ op.kind = "stop"
          /\ \A r \in DOMAIN op.results : op.results[r] # "pending"
          /\ done' = Append(done, [kind |-> "stop", name |-> op.name,
                                   ret |-> StopReturn(op.results)])
          /\ op' = NoCall
          /\ UNCHANGED agents
    /\ UNCHANGED <<pmesh, eventVars>>
    /\ UNCHANGED <<buildVars, meshVars, procVars, sinkVars, rdmaVars, viewVars, streamVars>>

\* The mesh agent of rank r handles the stop_actor at the head of its inbox:
\* NotFound without the actor, else the actor stops or the stop times out.
AgentStopActor(r) ==
    /\ agents[r].inbox # <<>>
    /\ LET req == Head(agents[r].inbox)
           rest == [agents[r] EXCEPT !.inbox = Tail(@)]
       IN /\ req.msg = "stop_actor"
          /\ \E outcome \in IF /\ req.actor_id.proc_id = MeshRanks[r + 1].proc_id
                               /\ req.actor_id.name \in agents[r].actors
                            THEN {"Success", "Timeout"} ELSE {"NotFound"} :
              /\ agents' = [agents EXCEPT ![r] =
                               IF outcome = "Success"
                               THEN [rest EXCEPT !.actors = @ \ {req.actor_id.name}]
                               ELSE rest]
              /\ op' = [op EXCEPT !.results[r] = outcome]
    /\ UNCHANGED <<pmesh, done, eventVars>>
    /\ UNCHANGED <<buildVars, meshVars, procVars, sinkVars, rdmaVars, viewVars, streamVars>>

StopNext ==
    \/ events
    \/ stop_actor_by_name
    \/ \E r \in 0 .. NumProcs - 1 : AgentStopActor(r)

SpecStop == StopInit /\ [][StopNext]_vars

(***************************************************************************)
(* C20: stop_actor_by_name sends stop_actor for (proc of rank i, name, 0)  *)
(* to the agent of every rank i (unless the send itself fails), returns    *)
(* only when every agent's outcome is in, and then returns Ok whatever the *)
(* outcomes; a call made when no proc has the actor leaves every proc's    *)
(* actors as they were; and no step of it touches the mesh's event state.  *)
(***************************************************************************)
C20_Step ==
    /\ op = NoCall /\ op'.kind = "stop" =>
          \A r \in DOMAIN agents :
              \/ /\ op'.results[r] = "Err"
                 /\ agents'[r] = agents[r]
              \/ /\ op'.results[r] = "pending"
                 /\ agents'[r] = [agents[r] EXCEPT !.inbox =
                       Append(@, [msg |-> "stop_actor",
                                  actor_id |-> [proc_id |-> MeshRanks[r + 1].proc_id,
                                                name |-> op'.name, pid |-> 0]])]
    /\ op.kind = "stop" /\ op'.kind = "none" =>
          /\ \A r \in DOMAIN agents :
                op.results[r] \in {"Success", "NotFound", "Timeout", "Err"}
          /\ done'[Len(done')] = [kind |-> "stop", name |-> op.name, ret |-> "Ok"]
          /\ (\A r \in DOMAIN agents : op.name \notin op.before[r]) =>
                /\ \A r \in DOMAIN agents : agents[r].actors = op.before[r]
                /\ \A r \in DOMAIN agents : op.results[r] \in {"NotFound", "Err"}
    /\ op' # op => pmesh' = pmesh

C20_StopAlwaysOk == [][C20_Step]_vars

\* The second stop of "a" has every outcome in: the actor, which was on rank 0
\* before the first stop, is on no proc, and the first stop returned Ok.
C20_Witness ==
    /\ done = <<[kind |-> "stop", name |-> "a", ret |-> "Ok"]>>
    /\ op.kind = "stop" /\ op.name = "a"
    /\ "a" \in agents[0].roots
    /\ \A r \in DOMAIN agents : "a" \notin op.before[r]
    /\ \A r \in DOMAIN agents : op.results[r] = "NotFound"

(***************************************************************************)
(* A failing allocate (proc_mesh.rs, allocate_boxed_inner).  Every         *)
(* fallible step ends in `?`: the error is returned at once and the locals *)
(* of the call are dropped; no statement of the function undoes what an    *)
(* earlier step installed outside those locals.  The steps before step 5   *)
(* (initialize, the client's channel::serve, attach("supervisor")) fail at *)
(* "start"; attach("client") fails at "installed"; the router's            *)
(* channel::serve, configure, the comm-actor spawn and the mode broadcast  *)
(* fail at "bound".                                                        *)
(***************************************************************************)
AllocateFails(m) ==
    /\ allocs[m].pc \in {"start", "installed", "bound"}
    /\ allocs' = [allocs EXCEPT ![m].pc = "failed"]
    /\ UNCHANGED <<gsink, ports, rootClient>>
    /\ UNCHANGED <<buildVars, meshVars, eventVars, procVars, spawnVars, rdmaVars, viewVars, streamVars>>

AllocateNext ==
    \/ SinkNext
    \/ \E m \in SinkMeshes : AllocateFails(m)

SpecAllocate == SinkInit /\ [][AllocateNext]_vars

(***************************************************************************)
(* C21: after an allocate has failed, the supervision state it installed   *)
(* is no longer in effect: the global sink is not the port of the failed   *)
(* call.                                                                   *)
(***************************************************************************)
C21_TornDown ==
    \A m \in SinkMeshes : allocs[m].pc = "failed" => gsink.cell # m

(***************************************************************************)
(* The RDMA queue-pair protocol (monarch_rdma/src/test_utils.rs): one      *)
(* queue pair, used by one task (the functions take &mut RdmaQueuePair),   *)
(* and its device.  The device side (launch_send_wqe, launch_cqe_poll, the *)
(* execution of a rung slot) is not part of the sources and follows the    *)
(* protocol description: the k-th descriptor is written to slot            *)
(* k mod wqe_cnt, a doorbell hands a slot to the device, the device        *)
(* executes the rung slots in order, each with the descriptor the slot     *)
(* holds when it is executed, and produces one completion per executed     *)
(* descriptor.  The counters are modelled as naturals: the number of       *)
(* posted work requests is capped by MaxWqes.                              *)
(***************************************************************************)
wqe_cnt == 4
MaxWqes == 5

PollTargets == {"Send", "Recv"}

NoWqe == [wr_id |-> -1, length |-> "none"]

\* Mutant of Overflow: a full ring counts as overflowed.
OverflowAtFull(cnt, wqe_idx, db_idx) == cnt <= wqe_idx - db_idx

\* if wqe_cnt < (qp.send_wqe_idx - qp.send_db_idx)
Overflow(cnt, wqe_idx, db_idx) == cnt < wqe_idx - db_idx

\* Mutant of Offset: the slot after the one the index names.
OffsetOfNext(db_idx, cnt) == (db_idx + 1) % cnt

\* (qp.send_db_idx % wqe_cnt) * stride, in units of one slot.
Offset(db_idx, cnt) == db_idx % cnt

\* Mutant of Pending: the loop runs once more.
PendingInclusive(db_idx, wqe_idx) == db_idx <= wqe_idx

\* while qp.send_db_idx < qp.send_wqe_idx
Pending(db_idx, wqe_idx) == db_idx < wqe_idx

\* The loop of ring_db_gpu: launch_db_ring on the slot of send_db_idx, then
\* send_db_idx += 1.
RECURSIVE RingLoop(_, _, _)
RingLoop(db_idx, wqe_idx, rung) ==
    IF Pending(db_idx, wqe_idx)
    THEN LET slot == Offset(db_idx, wqe_cnt) IN
         RingLoop(db_idx + 1, wqe_idx,
                  Append(rung, slot))
    ELSE [send_db_idx |-> db_idx, rung |-> rung]

\* Mutant of AdvanceCq: both completion counters advance.
AdvanceBothCq(q, target) ==
    [q EXCEPT !.send_cq_idx = @ + 1, !.recv_cq_idx = @ + 1]

\* PollTarget::Send => qp.send_cq_idx += 1, PollTarget::Recv => qp.recv_cq_idx += 1
AdvanceCq(q, target) ==
    IF target = "Send" THEN [q EXCEPT !.send_cq_idx = @ + 1]
    ELSE [q EXCEPT !.recv_cq_idx = @ + 1]

\* launch_send_wqe: the descriptor goes to the slot of the send counter.
LaunchSendWqe(queue, idx, length) ==
    [queue EXCEPT ![idx % wqe_cnt] = [wr_id |-> idx, length |-> length]]

\* launch_cqe_poll(cq, idx): the outcomes the device can give for the entry idx
\* of a completion queue that has produced `completed` entries.
LaunchCqePoll(completed, idx) ==
    IF idx < completed THEN {"TRUE", "ERROR"} ELSE {"FALSE", "ERROR"}

RdmaInit ==
    /\ qp = [send_wqe_idx |-> 0, send_db_idx |-> 0, send_cq_idx |-> 0,
             recv_wqe_idx |-> 0, recv_db_idx |-> 0, recv_cq_idx |-> 0]
    /\ sq = [slot \in 0 .. wqe_cnt - 1 |-> NoWqe]
    /\ hw = [rung |-> <<>>, executed |-> <<>>, recv_done |-> 0]
    /\ rdmaOp = [kind |-> "new", target |-> "None", ret |-> "Ok", last |-> "None",
                 failed |-> FALSE]
    /\ ViewIdle /\ AllocIdle /\ SinkIdle /\ SpawnIdle
    /\ EventsIdle /\ BuildIdle /\ MeshIdle /\ StreamIdle

RdmaFrame ==
    UNCHANGED <<buildVars, meshVars, eventVars, procVars, sinkVars, spawnVars,
                viewVars, streamVars>>

\* send_wqe_gpu(qp, lhandle, rhandle, op_type): the descriptor of lhandle
\* (half of the buffer or all of it) is posted; nothing is checked.
send_wqe_gpu(length) ==
    /\ rdmaOp.ret # "pending"
    /\ qp.send_wqe_idx + qp.recv_wqe_idx < MaxWqes
    /\ sq' = LaunchSendWqe(sq, qp.send_wqe_idx, length)
    /\ qp' = [qp EXCEPT !.send_wqe_idx = @ + 1]
    /\ rdmaOp' = [kind |-> "send_wqe_gpu", target |-> "Send", ret |-> "Ok",
                  last |-> "None", failed |-> rdmaOp.failed]
    /\ UNCHANGED hw
    /\ RdmaFrame

\* recv_wqe_gpu: qp.recv_wqe_idx += 1; qp.recv_db_idx += 1.
recv_wqe_gpu ==
    /\ rdmaOp.ret # "pending"
    /\ qp.send_wqe_idx + qp.recv_wqe_idx < MaxWqes
    /\ qp' = [qp EXCEPT !.recv_wqe_idx = @ + 1, !.recv_db_idx = @ + 1]
    /\ rdmaOp' = [kind |-> "recv_wqe_gpu", target |-> "Recv", ret |-> "Ok",
                  last |-> "None", failed |-> rdmaOp.failed]
    /\ UNCHANGED <<sq, hw>>
    /\ RdmaFrame

\* ring_db_gpu(qp).
ring_db_gpu ==
    /\ rdmaOp.ret # "pending"
    /\ IF Overflow(wqe_cnt, qp.send_wqe_idx, qp.send_db_idx)
       THEN /\ rdmaOp' = [kind |-> "ring_db_gpu", target |-> "Send",
                          ret |-> "Err(Overflow of WQE, possible data loss)",
                          last |-> "None", failed |-> TRUE]
            /\ UNCHANGED <<qp, hw>>
       ELSE LET loop == RingLoop(qp.send_db_idx, qp.send_wqe_idx, hw.rung) IN
            /\ qp' = [qp EXCEPT !.send_db_idx = loop.send_db_idx]
            /\ hw' = [hw EXCEPT !.rung = loop.rung]
            /\ rdmaOp' = [kind |-> "ring_db_gpu", target |-> "Send",
                          ret |-> "Ok", last |-> "None",
                          failed |-> rdmaOp.failed]
    /\ UNCHANGED sq
    /\ RdmaFrame

\* wait_for_completion_gpu(qp, poll_target, timeout_secs), and
\* wait_for_completion, whose poll is qp.poll_completion_target: the call, then
\* one iteration of the loop at a time (the loop sleeps between two polls).
wait_for_completion_gpu(target) ==
    /\ \/ \* the call: start_time = Instant::now()
          /\ rdmaOp.ret # "pending"
          /\ rdmaOp' = [kind |-> "wait_for_completion_gpu", target |-> target,
                        ret |-> "pending", last |-> "None",
                        failed |-> rdmaOp.failed]
          /\ UNCHANGED qp
       \/ \* start_time.elapsed() < timeout, and the poll
          /\ rdmaOp.ret = "pending"
          /\ rdmaOp.target = target
          /\ \E outcome \in LaunchCqePoll(
                 IF target = "Send" THEN Len(hw.executed) ELSE hw.recv_done,
                 IF target = "Send" THEN qp.send_cq_idx ELSE qp.recv_cq_idx) :
               /\ rdmaOp' = [rdmaOp EXCEPT
                     !.last = outcome,
                     !.failed = @ \/ outcome = "ERROR",
                     !.ret = CASE outcome = "TRUE" -> "Ok(true)"
                               [] outcome = "ERROR" -> "Err(Error polling completion)"
                               [] OTHER -> "pending"]
               /\ qp' = IF outcome = "TRUE" THEN AdvanceCq(qp, target) ELSE qp
       \/ \* start_time.elapsed() >= timeout
          /\ rdmaOp.ret = "pending"
          /\ rdmaOp.target = target
          /\ rdmaOp' = [rdmaOp EXCEPT
                !.last = "None",
                !.failed = TRUE,
                !.ret = "Err(Timeout while waiting for completion)"]
          /\ UNCHANGED qp
    /\ UNCHANGED <<sq, hw>>
    /\ RdmaFrame

\* The device: the next rung slot is executed and its completion produced; a
\* posted receive is completed by a message of the peer.
HwComplete ==
    /\ \/ /\ Len(hw.executed) < Len(hw.rung)
          /\ LET slot == hw.rung[Len(hw.executed) + 1] IN
             hw' = [hw EXCEPT
                       !.executed = Append(@, [slot |-> slot, wqe |-> sq[slot]])]
       \/ /\ hw.recv_done < qp.recv_db_idx
          /\ hw' = [hw EXCEPT !.recv_done = @ + 1]
    /\ UNCHANGED <<qp, sq, rdmaOp>>
    /\ RdmaFrame

RdmaNext ==
    \/ \E length \in {"half", "full"} : send_wqe_gpu(length)
    \/ recv_wqe_gpu
    \/ ring_db_gpu
    \/ \E target \in PollTargets : wait_for_completion_gpu(target)
    \/ HwComplete

SpecRdma == RdmaInit /\ [][RdmaNext]_vars

C23_Step ==
    LET pending == qp.send_wqe_idx - qp.send_db_idx
        slots == [i \in 1 .. pending |-> (qp.send_db_idx + i - 1) % wqe_cnt]
    IN (/\ rdmaOp.ret # "pending"
        /\ rdmaOp'.kind = "ring_db_gpu"
        /\ hw'.executed = hw.executed
        /\ hw'.recv_done = hw.recv_done)
       => /\ sq' = sq
          /\ IF pending <= wqe_cnt
             THEN /\ rdmaOp'.ret = "Ok"
                  /\ hw'.rung = hw.rung \o slots
                  /\ Cardinality({slots[i] : i \in 1 .. pending}) = pending
                  /\ qp' = [qp EXCEPT !.send_db_idx = qp.send_wqe_idx]
                  /\ pending = 0 => qp' = qp /\ hw' = hw
             ELSE /\ rdmaOp'.ret = "Err(Overflow of WQE, possible data loss)"
                  /\ hw' = hw
                  /\ qp' = qp

C23_Ring == [][C23_Step]_vars

\* One ring has rung the last slot of the queue and then slot 0; a ring before
\* it had rung fewer slots, and a full ring of wqe_cnt slots is also possible.
C23_Witness ==
    /\ rdmaOp.kind = "ring_db_gpu"
    /\ rdmaOp.ret = "Ok"
    /\ qp.send_db_idx = wqe_cnt + 1
    /\ Len(hw.rung) = wqe_cnt + 1
    /\ hw.rung[wqe_cnt] = wqe_cnt - 1
    /\ hw.rung[wqe_cnt + 1] = 0
    /\ hw.executed = <<>>

(***************************************************************************)
(* C24: while a wait for a target polls, a TRUE poll advances the cq_idx   *)
(* of that target by one and returns Ok(true); a FALSE poll changes no     *)
(* counter and the wait goes on; an ERROR poll returns an error and        *)
(* changes no counter; the timeout returns the timeout error and changes   *)
(* no counter.  No other counter, the cq_idx of the other target included, *)
(* is touched, and Ok is returned after a TRUE poll only.                  *)
(***************************************************************************)
C24_Step ==
    (rdmaOp.ret = "pending" /\ hw' = hw)
    => /\ rdmaOp'.kind = rdmaOp.kind /\ rdmaOp'.target = rdmaOp.target
       /\ rdmaOp'.ret = "Ok(true)" <=> rdmaOp'.last = "TRUE"
       /\ rdmaOp'.last = "TRUE"
            => qp' = IF rdmaOp.target = "Send"
                      THEN [qp EXCEPT !.send_cq_idx = qp.send_cq_idx + 1]
                      ELSE [qp EXCEPT !.recv_cq_idx = qp.recv_cq_idx + 1]
       /\ rdmaOp'.last = "FALSE" => qp' = qp /\ rdmaOp'.ret = "pending"
       /\ rdmaOp'.last = "ERROR"
            => qp' = qp /\ rdmaOp'.ret = "Err(Error polling completion)"
       /\ rdmaOp'.last = "None"
            => /\ qp' = qp
               /\ rdmaOp'.ret \in {"pending", "Err(Timeout while waiting for completion)"}

C24_Poll == [][C24_Step]_vars

\* A wait on Recv has returned Ok: the receive counter is 1, while a send
\* completion that the device has produced is still unread.
C24_Witness ==
    /\ rdmaOp.kind = "wait_for_completion_gpu"
    /\ rdmaOp.target = "Recv"
    /\ rdmaOp.ret = "Ok(true)"
    /\ qp.recv_cq_idx = 1
    /\ qp.send_cq_idx = 0
    /\ Len(hw.executed) = 1

(***************************************************************************)
(* C25: the k-th rung slot is k mod wqe_cnt, and when the device executes  *)
(* it while at most wqe_cnt posted descriptors are not yet executed (as    *)
(* when each operation is awaited before the next is posted), the          *)
(* descriptor it executes is the k-th one posted: after wqe_cnt completed  *)
(* operations the next one is in slot 0, is rung without an overflow and   *)
(* is executed with its own buffer.                                        *)
(***************************************************************************)
C25_Step ==
    LET k == Len(hw.executed) IN
    (Len(hw'.executed) = k + 1)
    => /\ hw'.executed[k + 1].slot = k % wqe_cnt
       /\ qp.send_wqe_idx - k <= wqe_cnt
            => hw'.executed[k + 1].wqe = sq[k % wqe_cnt]
               /\ sq[k % wqe_cnt].wr_id = k

C25_Wraparound == [][C25_Step]_vars

\* Four operations on half of the buffer and a fifth on all of it were
\* executed in this order and all five completions read: the fifth was executed
\* from slot 0.
C25_Witness ==
    /\ qp.send_cq_idx = wqe_cnt + 1
    /\ \A k \in 1 .. wqe_cnt :
          hw.executed[k] = [slot |-> k - 1, wqe |-> [wr_id |-> k - 1, length |-> "half"]]
    /\ hw.executed[wqe_cnt + 1] = [slot |-> 0, wqe |-> [wr_id |-> wqe_cnt, length |-> "full"]]
    /\ rdmaOp.ret = "Ok(true)"

(***************************************************************************)
(* Extent, Point and their iterators (ndslice/src/view.rs).  An extent is  *)
(* its sizes (the labels play no part in ranks and coordinates); sizes are *)
(* small enough for num_ranks to be far from the width of usize.  Each     *)
(* function is applied to the extent drawn by the initial state.           *)
(***************************************************************************)
MaxDims == 3

PointErr(kind) == [kind |-> kind]

\* Extent::rank_of_coords: coords and sizes are zipped from the right, with the
\* stride accumulator.
RECURSIVE RankLoop(_, _, _, _)
RankLoop(coords, sizes, stride, acc) ==
    IF coords = <<>>
    THEN [kind |-> "Ok", rank |-> acc]
    ELSE LET c == coords[Len(coords)]
             size == sizes[Len(sizes)]
         IN IF c >= size
            THEN PointErr("OutOfRangeIndex")
            ELSE RankLoop(SubSeq(coords, 1, Len(coords) - 1),
                          SubSeq(sizes, 1, Len(sizes) - 1),
                          stride * size, acc + c * stride)

\* Mutant of RankOfCoords: the coordinates are weighted from the left.
RankOfCoordsColumnMajor(sizes, coords) ==
    IF Len(coords) # Len(sizes)
    THEN PointErr("DimMismatch")
    ELSE LET rev(q) == [i \in 1 .. Len(q) |-> q[Len(q) + 1 - i]]
         IN RankLoop(rev(coords), rev(sizes), 1, 0)

RankOfCoords(sizes, coords) ==
    IF Len(coords) # Len(sizes)
    THEN PointErr("DimMismatch")
    ELSE RankLoop(coords, sizes, 1, 0)

\* Extent::point_of_rank
PointOfRank(sizes, rank) ==
    IF rank >= Product(sizes)
    THEN PointErr("OutOfRangeRank")
    ELSE [kind |-> "Ok", rank |-> rank]

\* Point::coords_iter
CoordsIter(sizes, rank) ==
    [sizes |-> sizes, rank |-> rank, stride |-> Product(sizes), axis |-> 0]

\* CoordIter::next: Some(item), None, or the panic of a division by zero, and
\* the iterator after the call.
CoordIterNext(it) ==
    IF it.axis >= Len(it.sizes)
    THEN [tag |-> "None", item |-> 0, it |-> it]
    ELSE IF it.sizes[it.axis + 1] = 0
    THEN [tag |-> "Panic", item |-> 0, it |-> it]
    ELSE LET stride == it.stride \div it.sizes[it.axis + 1] IN
         IF stride = 0
         THEN [tag |-> "Panic", item |-> 0, it |-> it]
         ELSE [tag |-> "Some", item |-> it.rank \div stride,
               it |-> [it EXCEPT !.stride = stride,
                                 !.rank = it.rank % stride,
                                 !.axis = it.axis + 1]]

\* Point::coords: self.coords_iter().collect()
RECURSIVE Collect(_, _)
Collect(it, acc) ==
    LET n == CoordIterNext(it) IN
    IF n.tag = "Some" THEN Collect(n.it, Append(acc, n.item))
    ELSE [panic |-> n.tag = "Panic", coords |-> acc]

\* Point::coord: self.coords_iter().nth(i).expect(..); -1 stands for a panic.
RECURSIVE Nth(_, _)
Nth(it, i) ==
    LET n == CoordIterNext(it) IN
    IF n.tag # "Some" THEN -1
    ELSE IF i = 0 THEN n.item
    ELSE Nth(n.it, i - 1)

\* CartesianIterator (ndslice/src/slice.rs): the coordinate vectors of the
\* sizes in row-major order, as an odometer; coords is the vector to yield
\* next unless done.
CartesianNew(sizes) ==
    [done |-> \E i \in 1 .. Len(sizes) : sizes[i] = 0,
     coords |-> [i \in 1 .. Len(sizes) |-> 0]]

RECURSIVE CartesianAdvance(_, _, _)
CartesianAdvance(sizes, coords, axis) ==
    IF axis = 0 THEN [done |-> TRUE, coords |-> coords]
    ELSE IF coords[axis] + 1 < sizes[axis]
    THEN [done |-> FALSE, coords |-> [coords EXCEPT ![axis] = @ + 1]]
    ELSE CartesianAdvance(sizes, [coords EXCEPT ![axis] = 0], axis - 1)

\* Mutant of PointsNext: a point whose rank is not 0 ends the iteration.
PointsNextStopsAfterFirst(sizes, pos) ==
    IF pos.done THEN [some |-> FALSE, rank |-> 0, pos |-> pos]
    ELSE LET r == RankOfCoords(sizes, pos.coords) IN
         IF r.kind # "Ok" \/ r.rank > 0 THEN [some |-> FALSE, rank |-> 0, pos |-> pos]
         ELSE [some |-> TRUE, rank |-> r.rank,
               pos |-> CartesianAdvance(sizes, pos.coords, Len(sizes))]

\* ExtentPointsIterator::next: self.pos.next()?, then
\* self.extent.rank_of_coords(&coords).ok()?
PointsNext(sizes, pos) ==
    IF pos.done THEN [some |-> FALSE, rank |-> 0, pos |-> pos]
    ELSE LET r == RankOfCoords(sizes, pos.coords) IN
         IF r.kind # "Ok" THEN [some |-> FALSE, rank |-> 0, pos |-> pos]
         ELSE [some |-> TRUE, rank |-> r.rank,
               pos |-> CartesianAdvance(sizes, pos.coords, Len(sizes))]

\* Extent::points, collected: the ranks of the points in the order yielded.
RECURSIVE PointsLoop(_, _, _)
PointsLoop(sizes, pos, acc) ==
    LET n == PointsNext(sizes, pos) IN
    IF n.some THEN PointsLoop(sizes, n.pos, Append(acc, n.rank)) ELSE acc

ExtentInit ==
    /\ view \in [sizes : SeqsUpTo(0 .. MaxRanks, MaxDims)]
    /\ viewOp = NoCall
    /\ RdmaIdle /\ AllocIdle /\ SinkIdle /\ SpawnIdle
    /\ EventsIdle /\ BuildIdle /\ MeshIdle /\ StreamIdle

ViewFrame ==
    UNCHANGED <<buildVars, meshVars, eventVars, procVars, sinkVars, spawnVars,
                rdmaVars, streamVars>>

\* extent.point_of_rank(rank), then coords(), coord(i) for every axis, and
\* extent.rank_of_coords of the coordinates.
ExtentPointOfRank ==
    /\ viewOp = NoCall
    /\ \E rank \in 0 .. Product(view.sizes) :
        LET p == PointOfRank(view.sizes, rank)
            coords == Collect(CoordsIter(view.sizes, rank), <<>>)
        IN viewOp' =
             IF p.kind # "Ok"
             THEN [kind |-> "point_of_rank", arg |-> rank, out |-> p.kind]
             ELSE [kind |-> "point_of_rank", arg |-> rank, out |-> "Ok",
                   coords |-> coords,
                   coord |-> [i \in 1 .. Len(view.sizes) |->
                                 Nth(CoordsIter(view.sizes, rank), i - 1)],
                   rank_of_coords |-> IF coords.panic THEN PointErr("Panic")
                                      ELSE RankOfCoords(view.sizes, coords.coords)]
    /\ UNCHANGED view
    /\ ViewFrame

\* extent.point(coords), then coords() of the point.
ExtentPoint ==
    /\ viewOp = NoCall
    /\ \E coords \in [1 .. Len(view.sizes) -> 0 .. MaxRanks] :
        LET p == RankOfCoords(view.sizes, coords) IN
        viewOp' =
          IF p.kind # "Ok"
          THEN [kind |-> "point", arg |-> coords, out |-> p.kind]
          ELSE [kind |-> "point", arg |-> coords, out |-> "Ok", rank |-> p.rank,
                coords |-> Collect(CoordsIter(view.sizes, p.rank), <<>>)]
    /\ UNCHANGED view
    /\ ViewFrame

\* extent.points().collect()
ExtentPoints ==
    /\ viewOp = NoCall
    /\ viewOp' = [kind |-> "points",
                  out |-> PointsLoop(view.sizes, CartesianNew(view.sizes), <<>>)]
    /\ UNCHANGED view
    /\ ViewFrame

ExtentNext ==
    \/ ExtentPointOfRank
    \/ ExtentPoint
    \/ ExtentPoints

SpecExtent == ExtentInit /\ [][ExtentNext]_vars

(***************************************************************************)
(* C26: for every rank r below num_ranks, the coordinates of the point of  *)
(* rank r are coord(i) = (r / product of the sizes after i) mod size(i),   *)
(* rank_of_coords of them is r, and coord(i) agrees with coords(); for     *)
(* every coordinate vector c with c[i] < size(i), point(c) exists and its  *)
(* coords() are c.                                                         *)
(***************************************************************************)
C26_RankCoordsInverse ==
    LET sizes == view.sizes IN
    /\ viewOp.kind = "point_of_rank"
         => /\ viewOp.out = "Ok" <=> viewOp.arg < Product(sizes)
            /\ viewOp.out = "Ok"
                 => /\ viewOp.coords = [panic |-> FALSE, coords |-> viewOp.coord]
                    /\ viewOp.coord =
                         [i \in 1 .. Len(sizes) |->
                            (viewOp.arg \div Product(SubSeq(sizes, i + 1, Len(sizes))))
                               % sizes[i]]
                    /\ viewOp.rank_of_coords = [kind |-> "Ok", rank |-> viewOp.arg]
    /\ viewOp.kind = "point"
         => /\ viewOp.out = "Ok"
                 <=> \A i \in 1 .. Len(sizes) : viewOp.arg[i] < sizes[i]
            /\ viewOp.out = "Ok"
                 => viewOp.coords = [panic |-> FALSE, coords |-> viewOp.arg]

\* The point of the last rank of a three-dimensional extent with no size 1,
\* and its coordinates.
C26_Witness ==
    /\ Len(view.sizes) = 3
    /\ \A i \in 1 .. 3 : view.sizes[i] >= 2
    /\ viewOp.kind = "point_of_rank"
    /\ viewOp.out = "Ok"
    /\ viewOp.arg = Product(view.sizes) - 1
    /\ viewOp.coords.coords = [i \in 1 .. 3 |-> view.sizes[i] - 1]

(***************************************************************************)
(* C27: points() yields exactly num_ranks() points, of ranks 0, 1, ...,    *)
(* num_ranks() - 1 in this order: one point for the extent without         *)
(* dimensions, none when some size is 0.                                   *)
(***************************************************************************)
C27_PointsInRankOrder ==
    viewOp.kind = "points"
      => /\ viewOp.out = [k \in 1 .. Product(view.sizes) |-> k - 1]
         /\ view.sizes = <<>> => viewOp.out = <<0>>
         /\ (\E i \in 1 .. Len(view.sizes) : view.sizes[i] = 0) => viewOp.out = <<>>

\* The points of an extent of two dimensions of different sizes.
C27_Witness ==
    /\ viewOp.kind = "points"
    /\ Len(view.sizes) = 2
    /\ view.sizes[1] >= 2
    /\ view.sizes[2] > view.sizes[1]
    /\ Len(viewOp.out) = view.sizes[1] * view.sizes[2]

(***************************************************************************)
(* Region: its text form, is_subset and remap (ndslice/src/view.rs).       *)
(* The initial state draws two regions the program can hold: the region of *)
(* an extent, a range of one, or the region parsed from a text whose       *)
(* strides grow with the axis (as the documented "x=2/1,y=3/2"), which     *)
(* enumerates its ranks out of increasing order.  A text is the sequence   *)
(* of tokens the parser cuts it into at the delimiters + = , and /: a      *)
(* token is a bare word or a string literal; an empty label leaves no      *)
(* token.                                                                  *)
(***************************************************************************)
Labels == {"x", "y", "7", "d/0", ""}

\* labels::is_safe_ident: every character is ASCII alphanumeric or '_' (none
\* is, in the empty label).
is_safe_ident(label) == label \in {"x", "y", "7", ""}

Word(text) == [quoted |-> FALSE, text |-> text]

\* format!("{:?}", label): the label as a string literal.
Literal(label) == [quoted |-> TRUE, text |-> "\"" \o label \o "\""]

\* labels::fmt_label, as the tokens it leaves in the text.
fmt_label(label) ==
    IF is_safe_ident(label)
    THEN IF label = "" THEN <<>> ELSE <<Word(label)>>
    ELSE <<Literal(label)>>

\* impl Display for Region
RECURSIVE RegionPairs(_, _)
RegionPairs(r, i) ==
    IF i > Len(r.labels) THEN <<>>
    ELSE fmt_label(r.labels[i])
           \o <<Word("="), Word(ToString(r.sizes[i])), Word("/"),
                Word(ToString(r.strides[i]))>>
           \o (IF i + 1 # Len(r.labels) + 1 THEN <<Word(",")>> ELSE <<>>)
           \o RegionPairs(r, i + 1)

RegionToString(r) ==
    (IF r.offset # 0 THEN <<Word(ToString(r.offset)), Word("+")>> ELSE <<>>)
      \o RegionPairs(r, 1)

\* The largest number a text of the model holds.
NumCap == (MaxRanks + 2) * (MaxRanks + 2)

\* Parser::try_parse::<usize>: the next token, if it is a bare word of digits;
\* the token is consumed on success only.  -1 stands for Err.
TryParse(toks) ==
    IF toks # <<>> /\ ~Head(toks).quoted
         /\ \E n \in 0 .. NumCap : ToString(n) = Head(toks).text
    THEN [value |-> CHOOSE n \in 0 .. NumCap : ToString(n) = Head(toks).text,
          rest |-> Tail(toks)]
    ELSE [value |-> -1, rest |-> toks]

\* Parser::expect
Expect(toks, delim) == toks # <<>> /\ Head(toks) = Word(delim)

ParseErr == [ok |-> FALSE]

\* The loop of from_str: one label=size/stride pair per turn.
RECURSIVE ParsePairs(_, _, _, _, _)
ParsePairs(toks, offset, labels, sizes, strides) ==
    IF toks = <<>>
    THEN [ok |-> TRUE,
          region |-> [labels |-> labels, offset |-> offset, sizes |-> sizes,
                      strides |-> strides]]
    ELSE IF labels # <<>> /\ ~Expect(toks, ",") THEN ParseErr
    ELSE LET t1 == IF labels # <<>> THEN Tail(toks) ELSE toks IN
         IF t1 = <<>> THEN ParseErr
         ELSE IF Head(t1).quoted /\ ~\E l \in Labels : Literal(l) = Head(t1)
         THEN ParseErr
         ELSE LET label == IF Head(t1).quoted
                           THEN CHOOSE l \in Labels : Literal(l) = Head(t1)
                           ELSE Head(t1).text
                  t2 == Tail(t1)
              IN IF ~Expect(t2, "=") THEN ParseErr
                 ELSE LET size == TryParse(Tail(t2)) IN
                      IF size.value < 0 \/ ~Expect(size.rest, "/") THEN ParseErr
                      ELSE LET stride == TryParse(Tail(size.rest)) IN
                           IF stride.value < 0 THEN ParseErr
                           ELSE ParsePairs(stride.rest, offset,
                                           Append(labels, label),
                                           Append(sizes, size.value),
                                           Append(strides, stride.value))

\* impl FromStr for Region
RegionFromStr(toks) ==
    LET first == TryParse(toks) IN
    IF first.value >= 0
    THEN IF Expect(first.rest, "+")
         THEN ParsePairs(Tail(first.rest), first.value, <<>>, <<>>, <<>>)
         ELSE ParseErr
    ELSE ParsePairs(toks, 0, <<>>, <<>>, <<>>)

\* The region "x=a/1,y=b/a".parse() gives: the sizes of an extent with the
\* strides growing with the axis.
ColumnMajor(r) ==
    [r EXCEPT !.strides =
        [i \in 1 .. Len(r.sizes) |-> Product(SubSeq(r.sizes, 1, i - 1))]]

ViewRegions ==
    Extents
      \cup UNION {Ranges(e) : e \in Extents}
      \cup {ColumnMajor(e) : e \in {x \in Extents : Len(x.sizes) = 2}}

RegionInit ==
    /\ view \in [self : ViewRegions, target : ViewRegions]
    /\ viewOp = NoCall
    /\ RdmaIdle /\ AllocIdle /\ SinkIdle /\ SpawnIdle
    /\ EventsIdle /\ BuildIdle /\ MeshIdle /\ StreamIdle

\* self.to_string().parse::<Region>(), self carrying any labels.
RegionRoundTrip ==
    /\ viewOp = NoCall
    /\ \E labels \in [1 .. Len(view.self.sizes) -> Labels] :
        LET r == [view.self EXCEPT !.labels = labels]
            text == RegionToString(r)
        IN viewOp' = [kind |-> "round_trip", arg |-> r, text |-> text,
                      out |-> RegionFromStr(text)]
    /\ UNCHANGED view
    /\ ViewFrame

\* self.is_subset(&target)
RegionIsSubset ==
    /\ viewOp = NoCall
    /\ viewOp' = [kind |-> "is_subset", out |-> IsSubset(view.self, view.target)]
    /\ UNCHANGED view
    /\ ViewFrame

\* self.remap(&target), the iterator run to its end.
RegionRemap ==
    /\ viewOp = NoCall
    /\ viewOp' = [kind |-> "remap", out |-> Remap(view.self, view.target)]
    /\ UNCHANGED view
    /\ ViewFrame

RegionNext ==
    \/ RegionRoundTrip
    \/ RegionIsSubset
    \/ RegionRemap

SpecRegion == RegionInit /\ [][RegionNext]_vars

(***************************************************************************)
(* C28: parsing the text of a region succeeds and gives a region equal to  *)
(* it, whatever its labels, offset, sizes and strides.                     *)
(***************************************************************************)
C28_RoundTrip ==
    viewOp.kind = "round_trip"
      => viewOp.out = [ok |-> TRUE, region |-> viewOp.arg]

\* What does hold: the round trip of a region with no empty label whose first
\* label is not a number when its offset is 0.
C28_RoundTripOfUnambiguous ==
    (/\ viewOp.kind = "round_trip"
     /\ \A i \in 1 .. Len(viewOp.arg.labels) : viewOp.arg.labels[i] # ""
     /\ (viewOp.arg.offset = 0 /\ viewOp.arg.labels # <<>>)
           => viewOp.arg.labels[1] # "7")
      => viewOp.out = [ok |-> TRUE, region |-> viewOp.arg]

\* The ranks a region enumerates, as a set.
RankSet(r) == {RegionRanks(r)[i] : i \in 1 .. Len(RegionRanks(r))}

(***************************************************************************)
(* C29: when every rank of target is a rank of self, self.remap(target) is *)
(* Some iterator that yields, without a panic, target.num_ranks() indices, *)
(* the k-th being the place in self of the k-th rank of target; otherwise  *)
(* it is None.                                                             *)
(***************************************************************************)
C29_Remap ==
    viewOp.kind = "remap"
      => IF RankSet(view.target) \subseteq RankSet(view.self)
         THEN /\ viewOp.out.some
              /\ ~viewOp.out.panic
              /\ Len(viewOp.out.indices) = NumRanks(view.target)
              /\ \A k \in 1 .. Len(viewOp.out.indices) :
                    RegionRanks(view.self)[viewOp.out.indices[k] + 1]
                      = RegionRanks(view.target)[k]
         ELSE ~viewOp.out.some

(***************************************************************************)
(* C30: a.is_subset(b) is true exactly when every rank a enumerates is     *)
(* enumerated by b.                                                        *)
(***************************************************************************)
C30_DecidesContainment ==
    viewOp.kind = "is_subset"
      => (viewOp.out <=> RankSet(view.self) \subseteq RankSet(view.target))

(***************************************************************************)
(* ViewExt::range and ViewExt::group_by with a Region as the view          *)
(* (ndslice/src/view.rs).  range and group_by borrow the view and return   *)
(* new views: `view` is the view the calls start from, and viewOp holds    *)
(* the receiver, the arguments and the outcome of the last call.  A        *)
(* second range is made on the view the first one returned.                *)
(***************************************************************************)
ViewErr(kind) == [kind |-> kind, views |-> <<>>]

\* labels.iter().position(|l| dim == l), counted from 1; 0 is None.
Position(labels, dim) ==
    IF \E i \in 1 .. Len(labels) : labels[i] = dim
    THEN CHOOSE i \in 1 .. Len(labels) :
            /\ labels[i] = dim
            /\ \A j \in 1 .. i - 1 : labels[j] # dim
    ELSE 0

\* Range::resolve(size): the end of an open range is the size of the axis.
Resolve(range, size) ==
    [begin |-> range.begin,
     end |-> IF range.some THEN range.end ELSE size,
     step |-> range.step]

\* impl View for Region, subset.
RegionSubset(self, target) ==
    IF IsSubset(target, self)
    THEN [kind |-> "Ok", views |-> <<target>>]
    ELSE ViewErr("InvalidRange")

\* ViewExt::range: div_ceil(step) panics on a step of 0 (division by zero).
ViewRange(self, dim, range) ==
    LET d == Position(self.labels, dim) IN
    IF d = 0 THEN ViewErr("InvalidDim")
    ELSE LET r == Resolve(range, self.sizes[d]) IN
         IF r.end <= r.begin THEN ViewErr("EmptyRange")
         ELSE IF r.step = 0 THEN ViewErr("Panic")
         ELSE RegionSubset(self, RangeRegion(self, d, r.begin, r.end, r.step))

\* The sub-views group_by's iterator yields, item by item: the subset of each
\* is unwrapped, and a panic ends the iteration.
RECURSIVE GroupLoop(_, _, _, _)
GroupLoop(self, d, ranks, acc) ==
    IF ranks = <<>>
    THEN [kind |-> "Ok", views |-> acc]
    ELSE LET n == Len(self.sizes)
             sub == RegionSubset(self,
                        [labels |-> SubSeq(self.labels, d, n),
                         offset |-> Head(ranks),
                         sizes |-> SubSeq(self.sizes, d, n),
                         strides |-> SubSeq(self.strides, d, n)])
         IN IF sub.kind # "Ok"
            THEN [kind |-> "Panic", views |-> acc]
            ELSE GroupLoop(self, d, Tail(ranks), acc \o sub.views)

\* ViewExt::group_by, the iterator run to its end.
GroupBy(self, dim) ==
    LET d == Position(self.labels, dim) IN
    IF d = 0 THEN ViewErr("InvalidDim")
    ELSE GroupLoop(self, d,
                   SliceRanks(self.offset, SubSeq(self.sizes, 1, d - 1),
                              SubSeq(self.strides, 1, d - 1)), <<>>)

\* The labels asked for ("z" labels no axis) and the ranges asked for on the
\* axis dim of a view: open or closed, with an end within the axis.
Dims == {"x", "y", "z"}

RangesOn(self, dim) ==
    {rg \in [begin : 0 .. MaxRanks, some : BOOLEAN, end : 0 .. MaxRanks,
             step : 0 .. MaxRanks] :
        /\ ~rg.some => rg.end = 0
        /\ Position(self.labels, dim) # 0
               => rg.end <= self.sizes[Position(self.labels, dim)]}

\* The view the next call is made on.
Receiver == IF viewOp = NoCall THEN view.self ELSE viewOp.out.views[1]

ViewInit ==
    /\ view \in [self : Extents \cup {ColumnMajor(e) :
                                        e \in {x \in Extents : Len(x.sizes) = 2}}]
    /\ viewOp = NoCall
    /\ RdmaIdle /\ AllocIdle /\ SinkIdle /\ SpawnIdle
    /\ EventsIdle /\ BuildIdle /\ MeshIdle /\ StreamIdle

\* view.range(dim, range), or the same on the view a first range returned.
ViewRangeCall ==
    /\ \/ viewOp = NoCall
       \/ viewOp.kind = "range" /\ viewOp.first /\ viewOp.out.kind = "Ok"
    /\ \E dim \in Dims : \E rg \in RangesOn(Receiver, dim) :
          viewOp' = [kind |-> "range", first |-> viewOp = NoCall,
                     self |-> Receiver, dim |-> dim, range |-> rg,
                     out |-> ViewRange(Receiver, dim, rg)]
    /\ UNCHANGED view
    /\ ViewFrame

\* view.group_by(dim), on the view or on the view a range returned.
ViewGroupByCall ==
    /\ \/ viewOp = NoCall
       \/ viewOp.kind = "range" /\ viewOp.first /\ viewOp.out.kind = "Ok"
    /\ \E dim \in Dims :
          viewOp' = [kind |-> "group_by", first |-> viewOp = NoCall,
                     self |-> Receiver, dim |-> dim, range |-> NoCall,
                     out |-> GroupBy(Receiver, dim)]
    /\ UNCHANGED view
    /\ ViewFrame

ViewNext == ViewRangeCall \/ ViewGroupByCall

SpecView == ViewInit /\ [][ViewNext]_vars

\* The ranks of a view, in its order, whose 0-based position has a
\* coordinate on axis d that the resolved range r reaches.
RECURSIVE Pick(_, _, _)
Pick(ranks, keep, i) ==
    IF i > Len(ranks) THEN <<>>
    ELSE (IF i \in keep THEN <<ranks[i]>> ELSE <<>>) \o Pick(ranks, keep, i + 1)

CoordOn(sizes, d, pos) ==
    (pos \div Product(SubSeq(sizes, d + 1, Len(sizes)))) % sizes[d]

Selected(self, d, r) ==
    Pick(RegionRanks(self),
         {i \in 1 .. NumRanks(self) :
             LET c == CoordOn(self.sizes, d, i - 1) IN
             /\ c >= r.begin /\ c < r.end /\ (c - r.begin) % r.step = 0},
         1)

\* C31: range(dim, Range(begin, end, step)) selects exactly the ranks of the
\* view whose coordinate on axis dim is begin + k*step < end (end defaulting
\* to the axis size), in the view's order; the other axes are unchanged, the
\* axis gets ceil((end - begin) / step) coordinates, its stride is multiplied
\* by step and the offset grows by begin times the old stride.  The same holds
\* of a range made on the result of a range.
C31_Range ==
    (viewOp.kind = "range" /\ Position(viewOp.self.labels, viewOp.dim) # 0)
      => LET self == viewOp.self
             d == Position(self.labels, viewOp.dim)
             r == Resolve(viewOp.range, self.sizes[d])
         IN (r.begin < r.end /\ r.step >= 1)
              => /\ viewOp.out.kind = "Ok"
                 /\ LET v == viewOp.out.views[1] IN
                    /\ RegionRanks(v) = Selected(self, d, r)
                    /\ v.labels = self.labels
                    /\ v.sizes = [self.sizes EXCEPT
                                    ![d] = DivCeil(r.end - r.begin, r.step)]
                    /\ v.strides = [self.strides EXCEPT ![d] = @ * r.step]
                    /\ v.offset = self.offset + r.begin * self.strides[d]

\* C32: range fails with InvalidDim when no axis carries the label, and with
\* EmptyRange when the step is 0 or the resolved end is not beyond the begin;
\* the error is returned as a value.
C32_RangeErrors ==
    viewOp.kind = "range"
      => LET self == viewOp.self
             d == Position(self.labels, viewOp.dim)
         IN IF d = 0
            THEN viewOp.out.kind = "InvalidDim"
            ELSE LET r == Resolve(viewOp.range, self.sizes[d]) IN
                 (r.step = 0 \/ r.end <= r.begin)
                    => viewOp.out.kind = "EmptyRange"

\* C33: group_by(dim) yields one sub-view per combination of coordinates of
\* the axes before dim, in row-major order of those axes, each with the
\* labels, sizes and strides of the axes from dim on; the rank sets of the
\* sub-views are pairwise disjoint and their union is the view's rank set.
\* An unknown label fails with InvalidDim.
C33_GroupBy ==
    viewOp.kind = "group_by"
      => LET self == viewOp.self
             n == Len(self.sizes)
             d == Position(self.labels, viewOp.dim)
             vs == viewOp.out.views
         IN IF d = 0
            THEN viewOp.out.kind = "InvalidDim"
            ELSE /\ viewOp.out.kind = "Ok"
                 /\ Len(vs) = Product(SubSeq(self.sizes, 1, d - 1))
                 /\ \A k \in 1 .. Len(vs) :
                       /\ vs[k].labels = SubSeq(self.labels, d, n)
                       /\ vs[k].sizes = SubSeq(self.sizes, d, n)
                       /\ vs[k].strides = SubSeq(self.strides, d, n)
                 /\ Concat([k \in 1 .. Len(vs) |-> RegionRanks(vs[k])])
                       = RegionRanks(self)
                 /\ \A k, l \in 1 .. Len(vs) :
                       k # l => RankSet(vs[k]) \cap RankSet(vs[l]) = {}
                 /\ UNION {RankSet(vs[k]) : k \in 1 .. Len(vs)} = RankSet(self)

(***************************************************************************)
(* Dense construction of a ValueMesh: build_dense, collect_mesh and        *)
(* collect_exact_mesh (value_mesh.rs, view.rs), each as the first step of  *)
(* a mesh, on the values 1..len.                                           *)
(***************************************************************************)
\* impl BuildFromRegion for ValueMesh, build_dense.
BuildDense(r, values) == ValueMeshNew(r, values, "val")

\* CollectMeshExt::collect_mesh: the iterator is collected, then build_dense.
CollectMesh(r, values) == BuildDense(r, values)

\* impl From<InvalidCardinality> for v1::Error: the descriptor becomes
\* InvalidRankCardinality with the same expected and actual.
ErrorFrom(c) == InvalidRankCardinality(c.expected, c.actual)

\* Mutant of CollectExactMesh: the pre-check only refuses too few values.
CollectExactMeshAtLeast(r, values) ==
    IF Len(values) < NumRanks(r)
    THEN ErrorFrom([expected |-> NumRanks(r), actual |-> Len(values)])
    ELSE ValueMeshNewUnchecked(r, values, "val")

\* CollectExactMeshExt::collect_exact_mesh: the len() pre-check, then
\* build_dense_unchecked.
CollectExactMesh(r, values) ==
    IF Len(values) # NumRanks(r)
    THEN ErrorFrom([expected |-> NumRanks(r), actual |-> Len(values)])
    ELSE ValueMeshNewUnchecked(r, values, "val")

MeshCollect ==
    /\ MeshIdle
    /\ \E r \in Extents, len \in 0 .. MaxRanks + 2 :
        LET values == [i \in 1 .. len |-> Val(i)] IN
        \E call \in {[op |-> "build_dense", out |-> BuildDense(r, values)],
                     [op |-> "collect_mesh", out |-> CollectMesh(r, values)],
                     [op |-> "collect_exact_mesh",
                      out |-> CollectExactMesh(r, values)]} :
            /\ mesh' = Produced(call.out)
            /\ meshOp' = [op |-> call.op, arg |-> <<r, len>>, out |-> call.out]
    /\ MeshFrame

SpecCollect == MeshInit /\ [][MeshCollect]_vars

\* C34: build_dense, collect_mesh and collect_exact_mesh succeed iff the
\* number of values equals region.num_ranks(); with fewer or with more values
\* each fails with InvalidRankCardinality { expected: num_ranks, actual: the
\* number of values }.
C34_Cardinality ==
    meshOp.op \in {"build_dense", "collect_mesh", "collect_exact_mesh"}
      => LET r == meshOp.arg[1]
             len == meshOp.arg[2]
         IN IF len = NumRanks(r)
            THEN /\ meshOp.out = Mesh(r, [i \in 1 .. len |-> Val(i)], "val")
                 /\ mesh = meshOp.out
            ELSE /\ meshOp.out.kind = "Err"
                 /\ meshOp.out.expected = NumRanks(r)
                 /\ meshOp.out.actual = len
                 /\ mesh = NoMesh

C34_Witness ==
    /\ meshOp.op = "collect_exact_mesh"
    /\ meshOp.out.kind = "Err"
    /\ meshOp.out.actual > meshOp.out.expected
    /\ meshOp.out.expected > 0

(***************************************************************************)
(* C35: a supervision event whose proc (the proc of its actor_id after the *)
(* CAST_ACTOR_MESH_ID rewriting, if any) is not in the ranks table is      *)
(* dropped: the iteration of next that read it yields no ProcEvent, the    *)
(* router is left as it was, and the loop goes on to the next alloc state  *)
(* or supervision event.                                                   *)
(***************************************************************************)
C35_Unmapped(ev) ==
    \A i \in 1 .. NumProcs :
        MeshRanks[i].proc_id # C10_Expected(ev).actor_id.proc_id

C35_Step ==
    (input'.src = "supervision" /\ calls' = calls + 1 /\ C35_Unmapped(input'.item))
      => /\ ret' = Continue
         /\ router' = router
         /\ closeChans' = closeChans

C35_DroppedWhenUnmapped ==
    /\ [](input.src = "supervision" /\ C35_Unmapped(input.item)
             => ret.kind \notin {"Crashed", "Stopped", "None"})
    /\ [][C35_Step]_vars

\* The event under the mesh-level id of world "m" was dropped after it was
\* forwarded to the actor mesh "b", and the loop then read the stop of a proc
\* and yielded it.
C35_Witness ==
    /\ ret.kind = "Stopped"
    /\ "b" \in DOMAIN router
    /\ LET log == chans[router["b"]].sent IN
        /\ Len(log) = 2
        /\ log[1].actor_id = ActorId(Ranked("m", 0), "b", 0)
        /\ log[2].actor_id.name = "any"

(***************************************************************************)
(* The select of ProcEvents::next over its two streams (proc_mesh.rs).     *)
(* sel.alloc and sel.sup are the items alloc.next() and                    *)
(* supervision_events.recv() are ready to resolve to (NoInput: not ready); *)
(* no actor mesh is registered, so the router has nobody to send to.  The  *)
(* caller calls next again whenever it returns: sel.ret is the outcome of  *)
(* the last iteration of the loop, whichever call it belonged to.          *)
(***************************************************************************)
\* Mutant of SelectReady: the branches are polled in the order they are
\* written (biased), so recv() is only reached when alloc.next() is pending.
SelectReadyBiased(s, branch) ==
    IF branch = "alloc"
    THEN s.alloc # NoInput
    ELSE s.sup # NoInput /\ s.alloc = NoInput

\* tokio::select! polls its branches starting from one picked at random: a
\* branch whose future is ready can complete, whatever the other one is.
SelectReady(s, branch) ==
    IF branch = "alloc" THEN s.alloc # NoInput ELSE s.sup # NoInput

SelectInit ==
    /\ sel = [alloc |-> NoInput, sup |-> NoInput, closed |-> FALSE,
              disabled |-> FALSE, allocRead |-> FALSE, supRead |-> FALSE,
              ret |-> NotCalled]
    /\ sim = NoCall
    /\ EventsIdle /\ BuildIdle /\ MeshIdle
    /\ AllocIdle /\ SinkIdle /\ SpawnIdle /\ RdmaIdle /\ ViewIdle

SelectFrame ==
    UNCHANGED <<buildVars, meshVars, eventVars, procVars, sinkVars, spawnVars,
                rdmaVars, viewVars, sim>>

\* The alloc has its next state ready.
AllocReady ==
    /\ sel.alloc = NoInput
    /\ \E st \in AllocStates : sel' = [sel EXCEPT !.alloc = st]
    /\ SelectFrame

\* A supervision event has arrived on the port.
SupervisionReady ==
    /\ ~sel.closed
    /\ sel.sup = NoInput
    /\ \E event \in SupervisionInputs : sel' = [sel EXCEPT !.sup = event]
    /\ SelectFrame

\* The supervision port is closed; what has arrived can still be received.
SupervisionClose ==
    /\ ~sel.closed
    /\ sel' = [sel EXCEPT !.closed = TRUE]
    /\ SelectFrame

\* The alloc branch completes: continue on a state other than Stopped and on
\* a create key of no proc of the mesh, else break Some(Stopped(rank, reason)).
SelectAlloc ==
    /\ SelectReady(sel, "alloc")
    /\ LET st == sel.alloc IN
       \E out \in IF st.kind # "Stopped" \/ RanksFind(st.create_key) = {}
                  THEN {Continue}
                  ELSE {Stopped(EventsRanks[p].rank, st.reason) :
                           p \in RanksFind(st.create_key)} :
           sel' = [sel EXCEPT !.alloc = NoInput, !.disabled = FALSE,
                              !.allocRead = ~@, !.ret = out]
    /\ SelectFrame

\* The supervision branch completes with Ok(event): break
\* Some(Crashed(rank, reason)) if the proc of the normalized event has a rank,
\* else continue.
SelectSupervision ==
    /\ SelectReady(sel, "supervision")
    /\ ~sel.disabled
    /\ LET event == Normalize(sel.sup)
           found == RanksGet(event.actor_id.proc_id)
       IN sel' = [sel EXCEPT
                    !.sup = NoInput, !.disabled = FALSE, !.supRead = ~@,
                    !.ret = IF found = {} THEN Continue
                            ELSE Crashed((CHOOSE e \in found : TRUE).rank,
                                         Display(event))]
    /\ SelectFrame

\* recv() resolves to Err on the closed, drained port: the pattern Ok(event)
\* does not match and the branch is disabled until the select is entered
\* again; the select goes on waiting for alloc.next().
SelectRecvClosed ==
    /\ sel.closed
    /\ sel.sup = NoInput
    /\ ~sel.disabled
    /\ sel' = [sel EXCEPT !.disabled = TRUE]
    /\ SelectFrame

SelectNext ==
    \/ AllocReady
    \/ SupervisionReady
    \/ SupervisionClose
    \/ SelectAlloc
    \/ SelectSupervision
    \/ SelectRecvClosed

\* Both sources keep providing (the premise of the progress claim), and the
\* caller keeps calling next, whose select lets a ready branch complete: the
\* random starting branch of tokio::select! leaves no ready branch unpolled
\* forever.
SpecSelect ==
    /\ SelectInit
    /\ [][SelectNext]_vars
    /\ WF_vars(AllocReady)
    /\ WF_vars(SupervisionReady)
    /\ WF_vars(SelectAlloc)
    /\ WF_vars(SelectSupervision)

\* C36: with both sources continually providing, an alloc state that is
\* ready is eventually read by next and a supervision event that is ready is
\* eventually read by next, so neither source starves the other; the alloc
\* states keep being read after the supervision port has closed.
C36_Progress ==
    /\ \A b \in BOOLEAN :
          (sel.alloc # NoInput /\ sel.allocRead = b) ~> (sel.allocRead # b)
    /\ \A b \in BOOLEAN :
          (sel.sup # NoInput /\ sel.supRead = b) ~> (sel.supRead # b)
    /\ \A b \in BOOLEAN :
          (sel.closed /\ sel.allocRead = b) ~> (sel.allocRead # b)

\* After the port closed and its branch was disabled, next has read the stop
\* of a proc and returned it; a supervision event had been read before.
C36_Witness ==
    /\ sel # NoCall
    /\ sel.closed /\ sel.sup = NoInput
    /\ sel.supRead
    /\ sel.ret.kind = "Stopped"

(***************************************************************************)
(* SimAlloc::next over its inner alloc (hyperactor_mesh/src/alloc/sim.rs). *)
(* The inner alloc takes each create key through Created, Running and      *)
(* Stopped, the keys interleaved in any way, and may end its stream.       *)
(* sim.emitted is what inner.next() has returned, sim.returned what        *)
(* SimAlloc::next has returned, sim.registered the register_proc calls     *)
(* the simnet has seen, the first being that of the client proc in new.    *)
(***************************************************************************)
SimKeys == 1 .. NumProcs
SimPoints == {<<c>> : c \in 0 .. NumProcs - 1}
SimProc(key) == Ranked("sim", key - 1)

\* The last state the inner alloc has emitted for a create key.
SimPhase(s, key) ==
    LET at == {i \in 1 .. Len(s.emitted) : s.emitted[i].create_key = key} IN
    IF at = {} THEN "new"
    ELSE s.emitted[CHOOSE i \in at : \A j \in at : j <= i].kind

\* HashMap::insert and HashMap::remove on `created`.
MapInsert(map, key, value) ==
    [k \in DOMAIN map \cup {key} |-> IF k = key THEN value ELSE map[k]]
MapRemove(map, key) == [k \in DOMAIN map \ {key} |-> map[k]]

\* Mutant of SimAllocNext: the point is looked up and left in the table.
SimAllocNextKeepsPoint(s, st) ==
    LET got == [s EXCEPT !.emitted = Append(@, st)] IN
    IF st.kind = "Created"
    THEN [got EXCEPT !.created = MapInsert(@, st.create_key, st.point),
                     !.returned = Append(@, st)]
    ELSE IF st.kind = "Running"
    THEN IF st.create_key \notin DOMAIN s.created
         THEN [got EXCEPT !.panic = TRUE]
         ELSE [got EXCEPT
                 !.registered = Append(@, [proc_id |-> st.proc_id,
                                           point |-> s.created[st.create_key]]),
                 !.returned = Append(@, st)]
    ELSE [got EXCEPT !.returned = Append(@, st)]

\* SimAlloc::next on the state st that inner.next() returned.
SimAllocNext(s, st) ==
    LET got == [s EXCEPT !.emitted = Append(@, st)] IN
    IF st.kind = "Created"
    THEN [got EXCEPT !.created = MapInsert(@, st.create_key, st.point),
                     !.returned = Append(@, st)]
    ELSE IF st.kind = "Running"
    THEN IF st.create_key \notin DOMAIN s.created
         THEN [got EXCEPT !.panic = TRUE]
         ELSE [got EXCEPT
                 !.registered = Append(@, [proc_id |-> st.proc_id,
                                           point |-> s.created[st.create_key]]),
                 !.created = MapRemove(@, st.create_key),
                 !.returned = Append(@, st)]
    ELSE [got EXCEPT !.returned = Append(@, st)]

\* SimAlloc::new: the client proc is registered at the origin.
SimInit ==
    /\ sim = [emitted |-> <<>>, returned |-> <<>>, created |-> <<>>,
              registered |-> <<[proc_id |-> Ranked("sim_manager", 0),
                                point |-> <<0>>]>>,
              panic |-> FALSE, closed |-> FALSE]
    /\ sel = NoCall
    /\ EventsIdle /\ BuildIdle /\ MeshIdle
    /\ AllocIdle /\ SinkIdle /\ SpawnIdle /\ RdmaIdle /\ ViewIdle

SimFrame ==
    UNCHANGED <<buildVars, meshVars, eventVars, procVars, sinkVars, spawnVars,
                rdmaVars, viewVars, sel>>

\* next() when the inner alloc returns the next state of one of its keys.
SimNextState ==
    /\ ~sim.closed /\ ~sim.panic
    /\ \E key \in SimKeys :
        \E st \in
            IF SimPhase(sim, key) = "new"
            THEN {[kind |-> "Created", create_key |-> key, point |-> p] :
                     p \in SimPoints}
            ELSE IF SimPhase(sim, key) = "Created"
            THEN {[kind |-> "Running", create_key |-> key,
                   proc_id |-> SimProc(key)]}
            ELSE IF SimPhase(sim, key) = "Running"
            THEN {[kind |-> "Stopped", create_key |-> key, reason |-> "Stopped"]}
            ELSE {} :
            sim' = SimAllocNext(sim, st)
    /\ SimFrame

\* next() when the inner alloc returns None: `?` returns None.
SimNextNone ==
    /\ ~sim.closed /\ ~sim.panic
    /\ sim' = [sim EXCEPT !.closed = TRUE]
    /\ SimFrame

SimNext == SimNextState \/ SimNextNone

SpecSim == SimInit /\ [][SimNext]_vars

\* C37: while the inner alloc takes each create key through Created, Running
\* and Stopped, SimAlloc::next returns the inner alloc's states in their
\* order and never panics, each proc that is Running has been registered
\* with the simnet exactly once, at the point its Created state carried, no
\* other proc of the alloc has been registered, and `created` holds exactly
\* the keys that are Created and not yet Running, with their points.
C37_PointOf(key) ==
    LET i == CHOOSE j \in 1 .. Len(sim.emitted) :
                 sim.emitted[j].kind = "Created" /\ sim.emitted[j].create_key = key
    IN sim.emitted[i].point

C37_Registers ==
    /\ ~sim.panic
    /\ sim.returned = sim.emitted
    /\ \A key \in SimKeys :
          LET regs == {i \in 1 .. Len(sim.registered) :
                          sim.registered[i].proc_id = SimProc(key)}
          IN IF SimPhase(sim, key) \in {"Running", "Stopped"}
             THEN /\ Cardinality(regs) = 1
                  /\ \A i \in regs : sim.registered[i].point = C37_PointOf(key)
             ELSE regs = {}
    /\ DOMAIN sim.created = {key \in SimKeys : SimPhase(sim, key) = "Created"}
    /\ \A key \in DOMAIN sim.created : sim.created[key] = C37_PointOf(key)

\* The first key is stopped, the last one is Created at another point and
\* waits in the table, and the stream has ended.
C37_Witness ==
    /\ sim # NoCall
    /\ sim.closed
    /\ SimPhase(sim, 1) = "Stopped"
    /\ DOMAIN sim.created = {NumProcs}
    /\ sim.created[NumProcs] # C37_PointOf(1)
    /\ Len(sim.registered) = NumProcs

(***************************************************************************)
(* C38: a spawn that fails leaves the actor-event router as it was before  *)
(* the call: no name is added or re-bound and no sender that was in the    *)
(* router is dropped, so a mesh spawned earlier under the same name keeps  *)
(* its sender registered.  A failed spawn is the step that makes a channel *)
(* whose receiver is dropped with the error.                               *)
(***************************************************************************)
C38_Step ==
    (Len(chans') = Len(chans) + 1 /\ ~chans'[Len(chans')].rx)
      => /\ router' = router
         /\ \A c \in 1 .. Len(chans) : chans'[c].tx = chans[c].tx

C38_FailedSpawnKeepsRouter == [][C38_Step]_vars

(***************************************************************************)
(* C39: whenever next yields Crashed(rank, _), rank is the rank of the     *)
(* proc of the event's actor_id as it was received, with or without a      *)
(* CAST_ACTOR_MESH_ID header.                                              *)
(***************************************************************************)
C39_CrashedRankOfReceivedProc ==
    (input.src = "supervision" /\ ret.kind = "Crashed")
      => \E i \in 1 .. NumProcs :
            /\ MeshRanks[i].proc_id = input.item.actor_id.proc_id
            /\ ret.rank = i - 1

(***************************************************************************)
(* C40: in a run of posts, doorbells and completion polls none of which    *)
(* returns an error, send_wqe_idx - send_cq_idx never exceeds wqe_cnt: no  *)
(* slot of the send queue is written again while the descriptor written   *)
(* to it before is still to be completed.                                  *)
(***************************************************************************)
C40_NoOverwriteOfOutstanding ==
    ~rdmaOp.failed => qp.send_wqe_idx - qp.send_cq_idx <= wqe_cnt

====
